---- MODULE Spec2Model ----
(***************************************************************************)
(* Maelstrom-WebUI: the ContractClient of src/lib/contract-client.ts as a  *)
(* state machine.  One invocation of a public method is in progress at a   *)
(* time; every await of the method is one step, and the ledger (the        *)
(* publicClient reads, the wallet's writeContract, the inclusion of a      *)
(* submitted transaction) answers nondeterministically.                    *)
(***************************************************************************)
EXTENDS Integers, Sequences, FiniteSets

VARIABLES
    config,        \* CONTRACT_ADDRESSES: the chain ids that map to a contract address
    client,        \* "none" (no ContractClient object) or "ok" (constructed)
    chainId,       \* this.chainId of the constructed client
    publicClient,  \* TRUE iff this.publicClient is defined
    op,            \* the method being invoked, "" when idle
    pc,            \* position inside the method
    args,          \* the arguments of the invocation
    calls,         \* what this invocation did so far: guard checks, ledger reads, writes
    local,         \* the method's local variables
    outcome,       \* what the invocation gave its caller: pending, return or throw
    txs            \* transactions this invocation's writes got accepted, with their status

vars == <<config, client, chainId, publicClient, op, pc, args, calls, local, outcome, txs>>

(***************************************************************************)
(* Text.  A message is a sequence of atoms (words, blanks, punctuation);   *)
(* String.prototype.includes is a search for a contiguous run of atoms.    *)
(***************************************************************************)
RECURSIVE Sp(_)
Sp(words) ==
    IF Len(words) <= 1 THEN words
    ELSE <<words[1], " ">> \o Sp(Tail(words))

Lower(a) ==
    CASE a = "The" -> "the"
      [] a = "Execution" -> "execution"
      [] a = "Pool" -> "pool"
      [] a = "Error" -> "error"
      [] a = "RPC" -> "rpc"
      [] a = "No" -> "no"
      [] a = "LP" -> "lp"
      [] a = "Cannot" -> "cannot"
      [] a = "Number" -> "number"
      [] a = "UNSUPPORTED_CHAIN" -> "unsupported_chain"
      [] a = "PUBLIC_CLIENT_UNAVAILABLE" -> "public_client_unavailable"
      [] OTHER -> a

toLowerCase(msg) == [i \in 1..Len(msg) |-> Lower(msg[i])]

includes(msg, pat) ==
    \E i \in 1..(Len(msg) - Len(pat) + 1) : SubSeq(msg, i, i + Len(pat) - 1) = pat

Digits == <<"0", "1", "2", "3", "4", "5", "6", "7", "8", "9">>

RECURSIVE ToString(_)
ToString(n) ==
    IF n < 10 THEN Digits[n + 1]
    ELSE ToString(n \div 10) \o Digits[(n % 10) + 1]

\* the decimal strings of small integers, and Number(s) of one
IsSmallString(s) == \E n \in 0..99 : ToString(n) = s

NumberOf(s) == CHOOSE n \in 0..99 : ToString(n) = s

\* bigint.toString() of h half ethers, that is of h * 5 * 10^17
HalfEtherString(h) == IF h = 0 THEN "0" ELSE ToString(5 * h) \o "00000000000000000"

EtherString(k) == HalfEtherString(2 * k)

IsHalfEtherString(s) == \E h \in 0..99 : HalfEtherString(h) = s

\* Number(s) / (5 * 10^17) of such a string
HalfEthersOf(s) == CHOOSE h \in 0..99 : HalfEtherString(h) = s

\* the integers (bigint) the ledger answers with: m base units, or m * 10^18
Wei(n) == [m |-> n, e |-> 0]

Ethers(k) == [m |-> k, e |-> 18]

\* bigint.toString()
BigIntString(v) == IF v.e = 0 THEN ToString(v.m) ELSE EtherString(v.m)

\* a JavaScript number that is a quotient n / d of two non-negative integers:
\* n / 0 is Infinity for n > 0 and 0 / 0 is NaN
RECURSIVE GCD(_, _)
GCD(a, b) == IF b = 0 THEN a ELSE GCD(b, a % b)

Quotient(n, d) ==
    IF d = 0 THEN [num |-> IF n = 0 THEN 0 ELSE 1, den |-> 0]
    ELSE [num |-> n \div GCD(n, d), den |-> d \div GCD(n, d)]

\* q * k, for an integer k > 0
Times(q, k) ==
    IF q.den = 0 THEN q
    ELSE [num |-> q.num * (k \div GCD(k, q.den)), den |-> q.den \div GCD(k, q.den)]

(***************************************************************************)
(* Errors.  A thrown value is an Error object with a message, or any other *)
(* value (here: a string).                                                 *)
(***************************************************************************)
NewError(msg) == [isError |-> TRUE, message |-> msg]

ThrownString(s) == [isError |-> FALSE, message |-> s]

\* (error as Error).message: undefined when the thrown value is no Error
MessageOf(err) == IF err.isError THEN err.message ELSE <<"undefined">>

getErrorMessage(err) == err.message

UNSUPPORTED_CHAIN == <<"UNSUPPORTED_CHAIN">>

PUBLIC_CLIENT_UNAVAILABLE == <<"PUBLIC_CLIENT_UNAVAILABLE">>

isExpectedReadFailureNoLower(error) ==
    LET msg == getErrorMessage(error) IN
    \/ includes(msg, Sp(<<"returned", "no", "data">>))
    \/ includes(msg, Sp(<<"no", "data">>) \o <<" ", "(", "0x", ")">>)
    \/ /\ includes(msg, <<"contract">>)
       /\ \/ includes(msg, Sp(<<"not", "deployed">>))
          \/ includes(msg, Sp(<<"could", "not", "be", "found">>))
    \/ includes(msg, Sp(<<"no", "logs">>))
    \/ includes(msg, Sp(<<"no", "events">>))
    \/ (includes(msg, <<"pool">>) /\ includes(msg, Sp(<<"not", "instantiated">>)))
    \/ /\ includes(msg, Sp(<<"execution", "reverted">>))
       /\ (includes(msg, <<"0x">>) \/ includes(msg, Sp(<<"no", "data">>)))

isExpectedReadFailure(error) ==
    LET msg == toLowerCase(getErrorMessage(error)) IN
    \/ includes(msg, Sp(<<"returned", "no", "data">>))
    \/ includes(msg, Sp(<<"no", "data">>) \o <<" ", "(", "0x", ")">>)
    \/ /\ includes(msg, <<"contract">>)
       /\ \/ includes(msg, Sp(<<"not", "deployed">>))
          \/ includes(msg, Sp(<<"could", "not", "be", "found">>))
    \/ includes(msg, Sp(<<"no", "logs">>))
    \/ includes(msg, Sp(<<"no", "events">>))
    \/ (includes(msg, <<"pool">>) /\ includes(msg, Sp(<<"not", "instantiated">>)))
    \/ /\ includes(msg, Sp(<<"execution", "reverted">>))
       /\ (includes(msg, <<"0x">>) \/ includes(msg, Sp(<<"no", "data">>)))

(***************************************************************************)
(* What the ledger's transport can reject a request with.                   *)
(***************************************************************************)
RpcUnknown == NewError(Sp(<<"unknown", "RPC", "error">>))

RpcNoData == NewError(Sp(<<"The", "contract", "function", "returned", "no", "data">>))

RpcReverted == NewError(Sp(<<"Execution", "reverted", "for", "an", "unknown", "reason">>))

RpcRevertedData == NewError(Sp(<<"Execution", "reverted", "with", "data">>) \o <<" ", "0x", "08c379a0">>)

RpcNoLogsString == ThrownString(Sp(<<"no", "logs">>))

RpcErrors == {RpcUnknown, RpcNoData, RpcReverted, RpcRevertedData, RpcNoLogsString}

NoError == NewError(<<>>)

\* a settled request: fulfilled with data (<<>> is null/undefined) or rejected
Fulfilled(d) == [ok |-> TRUE, data |-> d, err |-> NoError]

Rejected(e) == [ok |-> FALSE, data |-> <<>>, err |-> e]

(***************************************************************************)
(* Outcomes of an invocation.                                               *)
(***************************************************************************)
Pending == [kind |-> "pending", val |-> <<>>, err |-> NoError]

Return(v) == [kind |-> "return", val |-> v, err |-> NoError]

Throw(e) == [kind |-> "throw", val |-> <<>>, err |-> e]

GuardEvent == [kind |-> "guard", fn |-> "ensureCanRead", target |-> "", value |-> ""]

ReadEvent(fn, target) == [kind |-> "read", fn |-> fn, target |-> target, value |-> ""]

WriteEvent(fn, target, value) == [kind |-> "write", fn |-> fn, target |-> target, value |-> value]

NoLocal == [none |-> TRUE]

(***************************************************************************)
(* Configuration and addresses.                                             *)
(***************************************************************************)
DefaultChain == 63

Chains == {1, DefaultChain}

PoolContract == "0xPool"

ZeroAddress == "0x0000000000000000000000000000000000000000"

TokenAddresses == {"0xT1", "0xT2"}

LPAddress == "0xLP"

(***************************************************************************)
(* constructor (lines 43-53).  chainIdArg is <<>> when the argument is      *)
(* omitted and <<c>> when chain c is passed.                                *)
(***************************************************************************)
Coalesce(x, d) == IF x = <<>> THEN d ELSE x[1]

ConstructSucceedsAlways(c) == TRUE

ConstructSucceeds(c) == c \in config

Construct ==
    /\ pc = "idle"
    /\ \E chainIdArg \in {<<>>} \cup {<<c>> : c \in Chains}, handle \in BOOLEAN :
        LET c == Coalesce(chainIdArg, DefaultChain) IN
        /\ op' = "constructor"
        /\ args' = [chainId |-> chainIdArg, publicClient |-> handle]
        /\ calls' = <<>>
        /\ local' = NoLocal
        /\ txs' = <<>>
        /\ pc' = "done"
        /\ IF ConstructSucceeds(c)
           THEN /\ client' = "ok"
                /\ chainId' = c
                /\ publicClient' = handle
                /\ outcome' = Return("client")
           ELSE /\ client' = "none"
                /\ chainId' = c
                /\ publicClient' = FALSE
                /\ outcome' = Throw(NewError(UNSUPPORTED_CHAIN))
    /\ UNCHANGED config

(***************************************************************************)
(* ensureCanRead (lines 56-65): the error it throws, or NoError.            *)
(***************************************************************************)
ensureCanReadSwapped ==
    IF chainId \notin config THEN NewError(PUBLIC_CLIENT_UNAVAILABLE)
    ELSE IF ~publicClient THEN NewError(UNSUPPORTED_CHAIN)
    ELSE NoError

ensureCanRead ==
    IF chainId \notin config THEN NewError(UNSUPPORTED_CHAIN)
    ELSE IF ~publicClient THEN NewError(PUBLIC_CLIENT_UNAVAILABLE)
    ELSE NoError

(***************************************************************************)
(* safeRead (lines 70-82), after the guard passed: what it gives for the    *)
(* settled fn().                                                            *)
(***************************************************************************)
safeReadSettleWrapping(methodName, fallback, fnOutcome) ==
    IF fnOutcome.kind = "return" THEN fnOutcome
    ELSE IF isExpectedReadFailure(fnOutcome.err) THEN Return(fallback)
    ELSE Throw(NewError(<<methodName, " ", "failed", ":", " ">> \o MessageOf(fnOutcome.err)))

safeReadSettleSwallowing(methodName, fallback, fnOutcome) ==
    IF fnOutcome.kind = "return" THEN fnOutcome ELSE Return(fallback)

safeReadSettle(methodName, fallback, fnOutcome) ==
    IF fnOutcome.kind = "return" THEN fnOutcome
    ELSE IF isExpectedReadFailure(fnOutcome.err) THEN Return(fallback)
    ELSE Throw(fnOutcome.err)

(***************************************************************************)
(* The single-read methods wrapped by safeRead.                             *)
(***************************************************************************)
WrappedReads ==
    {"getReserves", "getBuyPrice", "getSellPrice", "getTokenRatio",
     "getLastExchangeTimestamp", "getPoolCount", "getUserPoolCount",
     "getTotalFees", "getTotalPoolFee", "getPoolFeeEventsCount", "getPoolFeeEvents"}

ReadFn(o) ==
    CASE o = "getReserves" -> "reserves"
      [] o = "getBuyPrice" -> "priceBuy"
      [] o = "getSellPrice" -> "priceSell"
      [] o = "getTokenRatio" -> "tokenPerETHRatio"
      [] o = "getLastExchangeTimestamp" -> "pools"
      [] o = "getPoolCount" -> "getTotalPools"
      [] o = "getUserPoolCount" -> "getUserTotalPools"
      [] o = "getTotalFees" -> "totalFees"
      [] o = "getTotalPoolFee" -> "totalPoolFees"
      [] o = "getPoolFeeEventsCount" -> "getPoolFeeEventsCount"
      [] o = "getPoolFeeEvents" -> "getPoolFeeList"

\* what the contract can answer each read with; <<>> is a null/undefined answer
LedgerData(fn) ==
    CASE fn = "reserves" ->
            {<<>>, <<<<Wei(0), Wei(0)>>>>, <<<<Wei(1), Wei(2)>>>>, <<<<Ethers(1), Ethers(2)>>>>}
      [] fn \in {"priceBuy", "priceSell"} -> {<<>>, <<Wei(0)>>, <<Wei(1)>>, <<Ethers(2)>>}
      [] fn = "pools" -> {<<>>, <<<<1, 2, 5>>>>}
      [] fn = "getPoolFeeEventsCount" -> {<<>>, <<0>>, <<1>>, <<2>>}
      [] fn = "getPoolFeeList" ->
            {<<>>, <<<<>>>>,
             <<<<[timestamp |-> 86400, fee |-> Ethers(1)]>>>>,
             <<<<[timestamp |-> 86400, fee |-> Ethers(1)],
                 [timestamp |-> 172800, fee |-> Ethers(2)]>>>>}
      [] OTHER -> {<<>>, <<0>>, <<12>>}

Fallback(o) ==
    CASE o = "getReserves" -> [tokenReserve |-> "0", ethReserve |-> "0"]
      [] o \in {"getBuyPrice", "getSellPrice", "getTokenRatio", "getTotalFees", "getTotalPoolFee"} -> "0"
      [] o \in {"getLastExchangeTimestamp", "getPoolCount", "getUserPoolCount", "getPoolFeeEventsCount"} -> 0
      [] o = "getPoolFeeEvents" -> <<>>

\* the value the method's fn computes from the contract's answer
ReadValue(o, data) ==
    CASE o = "getReserves" ->
            IF data = <<>> THEN [tokenReserve |-> "0", ethReserve |-> "0"]
            ELSE [tokenReserve |-> BigIntString(data[1][2]), ethReserve |-> BigIntString(data[1][1])]
      [] o \in {"getBuyPrice", "getSellPrice"} ->
            IF data = <<>> THEN "0" ELSE BigIntString(data[1])
      [] o \in {"getTokenRatio", "getTotalFees", "getTotalPoolFee"} ->
            IF data = <<>> THEN "0" ELSE ToString(data[1])
      [] o = "getLastExchangeTimestamp" ->
            IF data = <<>> THEN 0 ELSE data[1][3] * 1000
      [] o \in {"getPoolCount", "getUserPoolCount", "getPoolFeeEventsCount"} ->
            IF data = <<>> THEN 0 ELSE data[1]
      [] o = "getPoolFeeEvents" ->
            IF data = <<>> THEN <<>>
            ELSE [i \in 1..Len(data[1]) |->
                    [timestamp |-> data[1][i].timestamp * 1000, fee |-> BigIntString(data[1][i].fee)]]

FnOutcome(o, resp) == IF resp.ok THEN Return(ReadValue(o, resp.data)) ELSE Throw(resp.err)

Responses(fn) == {Fulfilled(d) : d \in LedgerData(fn)} \cup {Rejected(e) : e \in RpcErrors}

\* safeRead up to the first await: the guard, then fn() issues its read
CallWrappedRead ==
    /\ pc = "idle"
    /\ client = "ok"
    /\ \E o \in WrappedReads, t \in TokenAddresses :
        /\ op' = o
        /\ args' = [token |-> t]
        /\ local' = NoLocal
        /\ txs' = <<>>
        /\ IF ensureCanRead # NoError
           THEN /\ calls' = <<GuardEvent>>
                /\ outcome' = Throw(ensureCanRead)
                /\ pc' = "done"
           ELSE /\ calls' = <<GuardEvent, ReadEvent(ReadFn(o), PoolContract)>>
                /\ outcome' = Pending
                /\ pc' = "awaitRead"
    /\ UNCHANGED <<config, client, chainId, publicClient>>

\* the read settles; fn() returns or throws; safeRead classifies
WrappedReadSettles ==
    /\ pc = "awaitRead"
    /\ op \in WrappedReads
    /\ \E resp \in Responses(ReadFn(op)) :
        /\ local' = [resp |-> resp]
        /\ outcome' = safeReadSettle(op, Fallback(op), FnOutcome(op, resp))
    /\ pc' = "done"
    /\ UNCHANGED <<config, client, chainId, publicClient, op, args, calls, txs>>

(***************************************************************************)
(* Mutations (lines 84-246).  writeContract settles when the wallet has     *)
(* handed the transaction to the ledger (fulfilled with its hash) or        *)
(* refused (rejected); the ledger includes the transaction later.           *)
(***************************************************************************)
Mutations == {"initializePool", "deposit", "withdraw", "swap", "buy", "sell"}

OpPrefix(o) ==
    CASE o = "initializePool" -> <<"Pool", " ", "initialization", " ", "failed", ":", " ">>
      [] o = "deposit" -> <<"Deposit", " ", "failed", ":", " ">>
      [] o = "withdraw" -> <<"Withdraw", " ", "failed", ":", " ">>
      [] o = "swap" -> <<"Swap", " ", "failed", ":", " ">>
      [] o = "buy" -> <<"Buy", " ", "failed", ":", " ">>
      [] o = "sell" -> <<"Sell", " ", "failed", ":", " ">>

ApprovalPrefix == <<"Token", " ", "approval", " ", "failed", ":", " ">>

\* the decimal strings a request carries; "abc" is no integer
AmountStrings == {"1", "2", "abc"}

\* BigInt(s): <<n>>, or <<>> when it throws a SyntaxError
BigInt(s) ==
    CASE s = "1" -> <<1>>
      [] s = "2" -> <<2>>
      [] OTHER -> <<>>

BigIntError(s) == NewError(<<"Cannot", " ", "convert", " ", s, " ", "to", " ", "a", " ", "BigInt">>)

WalletRejected == NewError(Sp(<<"User", "rejected", "the", "request">>))

WalletRejectedString == ThrownString(Sp(<<"wallet", "locked">>))

WalletErrors == {WalletRejected, WalletRejectedString}

Hashes == <<"0xaaa", "0xbbb">>

NeedsApprovalAlways(o) == TRUE

\* buy (lines 202-223) is the one mutation that calls no approveToken
NeedsApproval(o) == o # "buy"

\* the address approveToken is given: the token, or the LP token for withdraw
ApproveTarget(o, a) == IF o = "withdraw" THEN LPAddress ELSE a.token

\* the strings converted by BigInt while the primary call's arguments are built
PrimaryConversions(o, a) ==
    IF o = "withdraw" THEN <<a.amount>> ELSE <<a.amount, a.other>>

\* the native-asset value attached to the primary call ("" when none)
PrimaryValue(o, a) ==
    IF o \in {"initializePool", "deposit", "buy"} THEN a.other ELSE ""

FirstBad(strs) ==
    LET bad == {i \in 1..Len(strs) : BigInt(strs[i]) = <<>>} IN
    IF bad = {} THEN 0 ELSE CHOOSE i \in bad : \A j \in bad : i <= j

\* catch (error) { throw new Error(`<Op> failed: ${(error as Error).message}`) }
MutationCatch(o, err) == Throw(NewError(OpPrefix(o) \o MessageOf(err)))

\* approveToken's catch (lines 92-94)
ApproveCatch(err) == NewError(ApprovalPrefix \o MessageOf(err))

approveTokenCallsRetried(o, a) ==
    <<WriteEvent("approve", ApproveTarget(o, a), ""), WriteEvent("approve", ApproveTarget(o, a), "")>>

\* the writeContract calls one run of approveToken makes (lines 86-91): one, in no loop
approveTokenCalls(o, a) == <<WriteEvent("approve", ApproveTarget(o, a), "")>>

\* result.txHash = txHash; return result
MutationReturnNoHash(result, h) == Return(result)

MutationReturn(result, h) == Return([result EXCEPT !.txHash = h])

\* a rejected approval ends approveToken by a throw; TRUE iff the method goes on
GoesOnAfterApprovalAlways(resp) == TRUE

GoesOnAfterApproval(resp) == resp.ok

\* the method from the point where it builds and submits the primary call
SubmitPrimary(o, a, before) ==
    LET bad == FirstBad(PrimaryConversions(o, a)) IN
    IF bad # 0
    THEN /\ calls' = before
         /\ outcome' = MutationCatch(o, BigIntError(PrimaryConversions(o, a)[bad]))
         /\ pc' = "done"
    ELSE /\ calls' = Append(before, WriteEvent(o, PoolContract, PrimaryValue(o, a)))
         /\ outcome' = Pending
         /\ pc' = "awaitPrimary"

WalletResponses == {Fulfilled(<<"hash">>)} \cup {Rejected(e) : e \in WalletErrors}

CallMutation ==
    /\ pc = "idle"
    /\ client = "ok"
    /\ \E o \in Mutations, t \in TokenAddresses, am \in AmountStrings, ot \in AmountStrings :
        LET a == [token |-> t, amount |-> am, other |-> ot] IN
        /\ op' = o
        /\ args' = a
        /\ local' = [result |-> [success |-> TRUE, txHash |-> ""]]
        /\ txs' = <<>>
        /\ IF NeedsApproval(o)
           THEN IF BigInt(am) = <<>>
                THEN /\ calls' = <<>>
                     /\ outcome' = MutationCatch(o, BigIntError(am))
                     /\ pc' = "done"
                ELSE /\ calls' = approveTokenCalls(o, a)
                     /\ outcome' = Pending
                     /\ pc' = "awaitApprove"
           ELSE SubmitPrimary(o, a, <<>>)
    /\ UNCHANGED <<config, client, chainId, publicClient>>

\* await this.writeContract({... 'approve' ...}) settles
ApproveSettles ==
    /\ pc = "awaitApprove"
    /\ \E resp \in WalletResponses :
        /\ IF GoesOnAfterApproval(resp)
           THEN /\ txs' = IF resp.ok
                          THEN Append(txs, [kind |-> "approve", hash |-> Hashes[Len(txs) + 1], status |-> "pending"])
                          ELSE txs
                /\ SubmitPrimary(op, args, calls)
           ELSE /\ txs' = txs
                /\ calls' = calls
                /\ outcome' = MutationCatch(op, ApproveCatch(resp.err))
                /\ pc' = "done"
        /\ local' = [result |-> local.result, approve |-> resp]
    /\ UNCHANGED <<config, client, chainId, publicClient, op, args>>

\* await this.writeContract({... primary ...}) settles
PrimarySettles ==
    /\ pc = "awaitPrimary"
    /\ \E resp \in WalletResponses :
        IF resp.ok
        THEN LET h == Hashes[Len(txs) + 1] IN
             /\ txs' = Append(txs, [kind |-> "primary", hash |-> h, status |-> "pending"])
             /\ outcome' = MutationReturn(local.result, h)
             /\ local' = [local EXCEPT !.result.txHash = h]
        ELSE /\ txs' = txs
             /\ outcome' = MutationCatch(op, resp.err)
             /\ local' = local
    /\ pc' = "done"
    /\ UNCHANGED <<config, client, chainId, publicClient, op, args, calls>>

\* the ledger includes the oldest transaction still pending (one account: nonce order)
IncludeTx ==
    /\ \E i \in 1..Len(txs) :
        /\ txs[i].status = "pending"
        /\ \A j \in 1..(i - 1) : txs[j].status = "included"
        /\ txs' = [txs EXCEPT ![i].status = "included"]
    /\ UNCHANGED <<config, client, chainId, publicClient, op, pc, args, calls, local, outcome>>

(***************************************************************************)
(* The reads that call publicClient without safeRead: isPoolInstantiated   *)
(* (lines 97-107), getToken (248-280), getLPToken (282-317) and            *)
(* getUserBalance (360-375).  this.publicClient?.readContract(...) is      *)
(* undefined, and issues nothing, when publicClient is undefined.          *)
(***************************************************************************)
UnwrappedReads == {"isPoolInstantiated", "getToken", "getUserBalance", "getLPToken"}

TokenPrefix == <<"Error", " ", "fetching", " ", "token", " ", "data", ":", " ">>

LPPrefix == <<"Error", " ", "fetching", " ", "LP", " ", "token", " ", "data", ":", " ">>

UserPrefix == <<"Error", " ", "fetching", " ", "user", " ", "reserves", ":", " ">>

NoLPError == NewError(Sp(<<"No", "LP", "token", "found", "for", "the", "given", "token">>) \o <<".">>)

UndefinedTypeError == NewError(Sp(<<"Cannot", "read", "properties", "of", "undefined">>))

Token(addr) == [address |-> addr, symbol |-> "TKN", name |-> "Token", decimals |-> "18"]

UndefinedToken(addr) ==
    [address |-> addr, symbol |-> "undefined", name |-> "undefined", decimals |-> "undefined"]

\* the three metadata reads getToken issues together
MetaReads(addr) ==
    <<ReadEvent("decimals", addr), ReadEvent("symbol", addr), ReadEvent("name", addr)>>

\* Promise.all settled: fulfilled when every read is, else rejected by the first rejection
AllResponses == {Fulfilled(<<"all">>)} \cup {Rejected(e) : e \in RpcErrors}

PoolTokenData == {<<>>, <<ZeroAddress>>, <<LPAddress>>}

\* getToken's try/catch around the settled Promise.all
getTokenOutcome(addr, resp) ==
    IF resp.ok THEN Return(Token(addr))
    ELSE Throw(NewError(TokenPrefix \o MessageOf(resp.err)))

isPoolInstantiatedOutcomeInverted(resp) ==
    IF ~resp.ok THEN Throw(resp.err)
    ELSE IF resp.data # <<>> /\ resp.data[1] = ZeroAddress THEN Return(TRUE)
    ELSE Return(FALSE)

\* if (data && data === "0x0000...0000") return false; return true  (lines 98-106)
isPoolInstantiatedOutcome(resp) ==
    IF ~resp.ok THEN Throw(resp.err)
    ELSE IF resp.data # <<>> /\ resp.data[1] = ZeroAddress THEN Return(FALSE)
    ELSE Return(TRUE)

getUserBalanceOutcome(resp) ==
    IF ~resp.ok THEN Throw(NewError(UserPrefix \o MessageOf(resp.err)))
    ELSE IF resp.data = <<>> THEN Throw(NewError(UserPrefix \o MessageOf(UndefinedTypeError)))
    ELSE Return([tokenReserve |-> ToString(resp.data[1][1]), ethReserve |-> ToString(resp.data[1][2])])

\* what each method gives when this.publicClient is undefined
NoHandleOutcome(o, t) ==
    CASE o = "isPoolInstantiated" -> Return(TRUE)
      [] o = "getToken" -> Return(UndefinedToken(t))
      [] o = "getUserBalance" -> Throw(NewError(UserPrefix \o MessageOf(UndefinedTypeError)))
      [] o = "getLPToken" -> Throw(NewError(LPPrefix \o MessageOf(NoLPError)))

FirstReads(o, t) ==
    CASE o = "isPoolInstantiated" -> <<ReadEvent("poolToken", PoolContract)>>
      [] o = "getToken" -> MetaReads(t)
      [] o = "getUserBalance" -> <<ReadEvent("poolUserBalances", PoolContract)>>
      [] o = "getLPToken" -> <<ReadEvent("poolToken", PoolContract)>>

CallUnwrappedRead ==
    /\ pc = "idle"
    /\ client = "ok"
    /\ \E o \in UnwrappedReads, t \in TokenAddresses :
        /\ op' = o
        /\ args' = [token |-> t]
        /\ local' = NoLocal
        /\ txs' = <<>>
        /\ IF ~publicClient
           THEN /\ calls' = <<>>
                /\ outcome' = NoHandleOutcome(o, t)
                /\ pc' = "done"
           ELSE /\ calls' = FirstReads(o, t)
                /\ outcome' = Pending
                /\ pc' = IF o = "getLPToken" THEN "awaitPoolToken" ELSE "awaitRead"
    /\ UNCHANGED <<config, client, chainId, publicClient>>

UnwrappedReadSettles ==
    /\ pc = "awaitRead"
    /\ op \in {"isPoolInstantiated", "getToken", "getUserBalance"}
    /\ \/ /\ op = "isPoolInstantiated"
          /\ \E resp \in {Fulfilled(d) : d \in PoolTokenData} \cup {Rejected(e) : e \in RpcErrors} :
                /\ local' = [resp |-> resp]
                /\ outcome' = isPoolInstantiatedOutcome(resp)
       \/ /\ op = "getToken"
          /\ \E resp \in AllResponses :
                /\ local' = [resp |-> resp]
                /\ outcome' = getTokenOutcome(args.token, resp)
       \/ /\ op = "getUserBalance"
          /\ \E resp \in {Fulfilled(d) : d \in {<<>>, <<<<1, 2>>>>}} \cup {Rejected(e) : e \in RpcErrors} :
                /\ local' = [resp |-> resp]
                /\ outcome' = getUserBalanceOutcome(resp)
    /\ pc' = "done"
    /\ UNCHANGED <<config, client, chainId, publicClient, op, args, calls, txs>>

(***************************************************************************)
(* getLPToken, called by its caller or inside getPool's safeRead           *)
(* (line 725).  A throw of getLPToken ends getLPToken; inside getPool it   *)
(* is what getPool's fn threw, and safeRead classifies it.                 *)
(***************************************************************************)
LPToken(tokenMetaData, supply, balance) ==
    [address |-> tokenMetaData.address, symbol |-> tokenMetaData.symbol,
     name |-> tokenMetaData.name, decimals |-> tokenMetaData.decimals,
     totalSupply |-> ToString(supply), balance |-> ToString(balance)]

\* Default pool shape (lines 697-721); lastUpdated is the clock, left out
buildDefaultPool(t) ==
    [token |-> t,
     reserve |-> [tokenReserve |-> "0", ethReserve |-> "0"],
     lpToken |-> [address |-> t, symbol |-> "LP", name |-> "LP Token", decimals |-> "18",
                  totalSupply |-> "0", balance |-> "0"],
     buyPrice |-> "0", sellPrice |-> "0", avgPrice |-> "0", tokenRatio |-> "0",
     volume24h |-> "0", totalLiquidty |-> "0", apr |-> Quotient(0, 1), lastExchangeTs |-> 0]

\* how a throw of getLPToken reaches the caller of the method in progress
LPThrows(o, t, err) ==
    IF o = "getPool" THEN safeReadSettle("getPool", buildDefaultPool(t), Throw(err))
    ELSE Throw(err)

\* the poolToken read settles (lines 284-290)
LPAddressSettles ==
    /\ pc = "awaitPoolToken"
    /\ \E resp \in {Fulfilled(d) : d \in PoolTokenData} \cup {Rejected(e) : e \in RpcErrors} :
        IF ~resp.ok
        THEN /\ outcome' = LPThrows(op, args.token, NewError(LPPrefix \o MessageOf(resp.err)))
             /\ pc' = "done"
             /\ local' = [lpFailed |-> "poolToken", resp |-> resp]
             /\ calls' = calls
        ELSE IF resp.data = <<>>
        THEN /\ outcome' = LPThrows(op, args.token, NewError(LPPrefix \o MessageOf(NoLPError)))
             /\ pc' = "done"
             /\ local' = [lpFailed |-> "noLP", resp |-> resp]
             /\ calls' = calls
        ELSE IF ~publicClient
        THEN /\ outcome' = LPThrows(op, args.token, NewError(LPPrefix \o MessageOf(UndefinedTypeError)))
             /\ pc' = "done"
             /\ local' = [lpFailed |-> "noHandle", resp |-> resp, lpAddress |-> resp.data[1]]
             /\ calls' = calls
        ELSE /\ outcome' = Pending
             /\ pc' = "awaitSupply"
             /\ local' = [lpAddress |-> resp.data[1]]
             /\ calls' = calls \o <<ReadEvent("totalSupply", resp.data[1]), ReadEvent("balanceOf", resp.data[1])>>
    /\ UNCHANGED <<config, client, chainId, publicClient, op, args, txs>>

\* Number(s) / (5 * 10^17) as it counts in a sum of ethers: an amount of a few
\* base units is below the precision of the sum
HalfEthers(s) == IF IsHalfEtherString(s) THEN HalfEthersOf(s) ELSE 0

\* getAvgPrice (lines 395-397): ((Number(buyPrice) + Number(sellPrice)) / 2).toString(),
\* for prices of a few base units or of whole ethers (10^18 base units)
getAvgPrice(buyPrice, sellPrice) ==
    IF IsSmallString(buyPrice) /\ IsSmallString(sellPrice)
    THEN LET sum == NumberOf(buyPrice) + NumberOf(sellPrice) IN
         IF sum % 2 = 0 THEN ToString(sum \div 2) ELSE ToString(sum \div 2) \o ".5"
    ELSE HalfEtherString((HalfEthers(buyPrice) + HalfEthers(sellPrice)) \div 2)

\* what parseEther throws for a string that is no plain decimal number
InvalidDecimalNumber ==
    NewError(Sp(<<"Number", "is", "not", "a", "valid", "decimal", "number">>) \o <<".">>)

\* getTotalLiquidity (lines 389-393).  liquidity, in ethers, is
\* avgPrice * tokenReserve / 10^36 + ethReserve / 10^18.  A term made of amounts
\* of a few base units is below 10^-6: next to a term in ethers it is lost in the
\* sum, and without one String(liquidity) is in exponent form ("1e-18"), which
\* parseEther refuses.  A price in half ethers times a reserve in whole ethers
\* is a whole or half number of ethers.
getTotalLiquidity(avgPrice, reserve) ==
    LET product == IF avgPrice = "0" \/ reserve.tokenReserve = "0" THEN "zero"
                   ELSE IF IsHalfEtherString(avgPrice) /\ IsHalfEtherString(reserve.tokenReserve)
                   THEN "ethers" ELSE "tiny"
        eth == IF reserve.ethReserve = "0" THEN "zero"
               ELSE IF IsHalfEtherString(reserve.ethReserve) THEN "ethers" ELSE "tiny" IN
    IF product = "zero" /\ eth = "zero" THEN Return("0")
    ELSE IF product # "ethers" /\ eth # "ethers" THEN Throw(InvalidDecimalNumber)
    ELSE Return(HalfEtherString(
            (IF product = "ethers"
             THEN HalfEthersOf(avgPrice) * (HalfEthersOf(reserve.tokenReserve) \div 2) ELSE 0)
            + (IF eth = "ethers" THEN HalfEthersOf(reserve.ethReserve) ELSE 0)))

\* the reads getPool's fn makes after getLPToken, in order (lines 726-737);
\* each is itself a safeRead.  get24hVolume stands for its whole scan, which
\* starts by reading the latest block number and settles with a volume or a throw.
PoolTail ==
    <<"getReserves", "getBuyPrice", "getSellPrice", "getTokenRatio", "get24hVolume",
      "getPoolFeeEventsCount", "getPoolFeeEvents", "getLastExchangeTimestamp">>

NestedFn(o) == IF o = "get24hVolume" THEN "getBlockNumber" ELSE ReadFn(o)

NestedFallback(o) == IF o = "get24hVolume" THEN "0" ELSE Fallback(o)

NestedValue(o, data) ==
    IF o = "get24hVolume" THEN (IF data = <<>> THEN "0" ELSE ToString(data[1]))
    ELSE ReadValue(o, data)

\* an inner safeRead, guard passed: what it gives the method that called it
NestedOutcome(o, resp) ==
    safeReadSettle(o, NestedFallback(o),
                   IF resp.ok THEN Return(NestedValue(o, resp.data)) ELSE Throw(resp.err))

\* the events an inner safeRead adds up to its read
NestedStart(o) ==
    IF ensureCanRead # NoError THEN <<GuardEvent>>
    ELSE <<GuardEvent, ReadEvent(NestedFn(o), PoolContract)>>

\* getYield (lines 890-897), for a list that is not empty, fees in ethers and a
\* total liquidity of 0 or in ethers
RECURSIVE TotalFees(_)
TotalFees(feeEvents) ==
    IF feeEvents = <<>> THEN 0
    ELSE HalfEthers(Head(feeEvents).fee) + TotalFees(Tail(feeEvents))

getYield(feeEvents, totalLiquidity) ==
    Quotient(TotalFees(feeEvents) * (60 * 60 * 24),
             (feeEvents[Len(feeEvents)].timestamp - feeEvents[1].timestamp)
                * HalfEthers(totalLiquidity))

\* getAPR (lines 399-401) and Number(apr) (line 749)
getAPR(poolYield) == Times(poolYield, 365 * 100)

\* line 735: whether getPool calls getYield
CallsGetYield(feeEventsCount, poolFeesEvents) == feeEventsCount > 0 /\ Len(poolFeesEvents) > 0

\* the Pool getPool returns (lines 739-752); lastUpdated is the clock, left out
PoolRecord(t, lp, got, avgPrice, totalLiquidity, poolYield) ==
    [token |-> t, reserve |-> got[1], lpToken |-> lp, buyPrice |-> got[2], sellPrice |-> got[3],
     avgPrice |-> avgPrice, tokenRatio |-> got[4], volume24h |-> got[5],
     totalLiquidty |-> totalLiquidity, apr |-> getAPR(poolYield), lastExchangeTs |-> got[8]]

\* getLPToken returns lp (lines 306-313): to its caller, or to getPool, which goes
\* on to getReserves (line 726), an inner safeRead that runs the guard again
AfterGetLPToken(lp, before) ==
    IF op = "getLPToken"
    THEN /\ outcome' = Return(lp)
         /\ pc' = "done"
         /\ local' = [lpToken |-> lp]
         /\ calls' = before
    ELSE IF ensureCanRead # NoError
    THEN /\ outcome' = safeReadSettle("getPool", buildDefaultPool(args.token), Throw(ensureCanRead))
         /\ pc' = "done"
         /\ local' = [lpToken |-> lp]
         /\ calls' = before \o NestedStart(PoolTail[1])
    ELSE /\ outcome' = Pending
         /\ pc' = "awaitTail"
         /\ local' = [lpToken |-> lp, step |-> 1, got |-> <<>>, avgPrice |-> "",
                      totalLiquidity |-> Pending, getYield |-> <<>>, poolYield |-> Quotient(0, 1)]
         /\ calls' = before \o NestedStart(PoolTail[1])

\* totalSupply and balanceOf settle (lines 291-304); then getToken(tokenAddress)
\* starts, which without a read handle issues nothing and gives undefined metadata
LPSupplySettles ==
    /\ pc = "awaitSupply"
    /\ \E resp \in {Fulfilled(<<<<7, 3>>>>)} \cup {Rejected(e) : e \in RpcErrors} :
        IF ~resp.ok
        THEN /\ outcome' = LPThrows(op, args.token, NewError(LPPrefix \o MessageOf(resp.err)))
             /\ pc' = "done"
             /\ local' = [lpFailed |-> "supply", resp |-> resp, lpAddress |-> local.lpAddress]
             /\ calls' = calls
        ELSE IF ~publicClient
        THEN AfterGetLPToken(LPToken(UndefinedToken(local.lpAddress), resp.data[1][1], resp.data[1][2]),
                             calls)
        ELSE /\ outcome' = Pending
             /\ pc' = "awaitMeta"
             /\ local' = [lpAddress |-> local.lpAddress, supply |-> resp.data[1][1], balance |-> resp.data[1][2]]
             /\ calls' = calls \o MetaReads(local.lpAddress)
    /\ UNCHANGED <<config, client, chainId, publicClient, op, args, txs>>

\* getToken(tokenAddress) settles (line 305): getLPToken returns, or throws
LPMetaSettles ==
    /\ pc = "awaitMeta"
    /\ \E resp \in AllResponses :
        LET tok == getTokenOutcome(local.lpAddress, resp) IN
        IF tok.kind = "throw"
        THEN /\ outcome' = LPThrows(op, args.token, NewError(LPPrefix \o MessageOf(tok.err)))
             /\ pc' = "done"
             /\ local' = [lpFailed |-> "meta", resp |-> resp, lpAddress |-> local.lpAddress]
             /\ calls' = calls
        ELSE AfterGetLPToken(LPToken(tok.val, local.supply, local.balance), calls)
    /\ UNCHANGED <<config, client, chainId, publicClient, op, args, txs>>

\* getPool up to its first await (lines 723-725)
CallGetPool ==
    /\ pc = "idle"
    /\ client = "ok"
    /\ \E t \in TokenAddresses :
        /\ op' = "getPool"
        /\ args' = [token |-> t]
        /\ local' = NoLocal
        /\ txs' = <<>>
        /\ IF ensureCanRead # NoError
           THEN /\ calls' = <<GuardEvent>>
                /\ outcome' = Throw(ensureCanRead)
                /\ pc' = "done"
           ELSE /\ calls' = <<GuardEvent, ReadEvent("poolToken", PoolContract)>>
                /\ outcome' = Pending
                /\ pc' = "awaitPoolToken"
    /\ UNCHANGED <<config, client, chainId, publicClient>>

\* what the ledger can answer getPool's read of step o with: the fee list holds
\* the events asked for (lines 733-734), feeEventsCount of them
TailData(o, got) ==
    IF o = "getPoolFeeEvents"
    THEN {d \in LedgerData(NestedFn(o)) : d = <<>> \/ Len(d[1]) = got[6]}
    ELSE LedgerData(NestedFn(o))

\* one inner read of getPool settles, and getPool goes on to its next await or
\* to its end (lines 726-753)
PoolTailSettles ==
    /\ pc = "awaitTail"
    /\ LET o == PoolTail[local.step] IN
       \E resp \in {Fulfilled(d) : d \in TailData(o, local.got)} \cup {Rejected(e) : e \in RpcErrors} :
        LET inner == NestedOutcome(o, resp)
            skip == o = "getPoolFeeEventsCount" /\ inner.kind = "return" /\ ~(inner.val > 0)
            got == IF skip THEN local.got \o <<inner.val, <<>>>> ELSE Append(local.got, inner.val)
            next == IF skip THEN local.step + 2 ELSE local.step + 1
            avgPrice == IF o = "get24hVolume" THEN getAvgPrice(got[2], got[3]) ELSE local.avgPrice
            totalLiquidity == IF o = "get24hVolume" THEN getTotalLiquidity(avgPrice, got[1])
                              ELSE local.totalLiquidity
            called == IF skip \/ o = "getPoolFeeEvents"
                      THEN (IF CallsGetYield(got[6], got[7])
                            THEN <<[feeEvents |-> got[7], totalLiquidity |-> totalLiquidity.val]>>
                            ELSE <<>>)
                      ELSE local.getYield
            poolYield == IF called = <<>> THEN Quotient(0, 1)
                         ELSE getYield(called[1].feeEvents, called[1].totalLiquidity)
            gone == [local EXCEPT !.got = got, !.step = next, !.avgPrice = avgPrice,
                                  !.totalLiquidity = totalLiquidity, !.getYield = called,
                                  !.poolYield = poolYield] IN
        IF inner.kind = "throw"
        THEN /\ outcome' = safeReadSettle("getPool", buildDefaultPool(args.token), inner)
             /\ pc' = "done"
             /\ local' = [local EXCEPT !.got = <<>>]
             /\ calls' = calls
        ELSE IF totalLiquidity.kind = "throw"
        THEN /\ outcome' = safeReadSettle("getPool", buildDefaultPool(args.token), totalLiquidity)
             /\ pc' = "done"
             /\ local' = gone
             /\ calls' = calls
        ELSE IF next > Len(PoolTail)
        THEN /\ outcome' = safeReadSettle("getPool", buildDefaultPool(args.token),
                                          Return(PoolRecord(args.token, local.lpToken, got, avgPrice,
                                                            totalLiquidity.val, poolYield)))
             /\ pc' = "done"
             /\ local' = gone
             /\ calls' = calls
        ELSE IF ensureCanRead # NoError
        THEN /\ outcome' = safeReadSettle("getPool", buildDefaultPool(args.token), Throw(ensureCanRead))
             /\ pc' = "done"
             /\ local' = gone
             /\ calls' = calls \o NestedStart(PoolTail[next])
        ELSE /\ outcome' = Pending
             /\ pc' = "awaitTail"
             /\ local' = gone
             /\ calls' = calls \o NestedStart(PoolTail[next])
    /\ UNCHANGED <<config, client, chainId, publicClient, op, args, txs>>

(***************************************************************************)
(* getPools (lines 756-782).                                                *)
(***************************************************************************)
MaxPools == 2

\* the address pages the contract can answer getPoolList with
AddressLists(n) ==
    {l \in UNION {[1..k -> TokenAddresses] : k \in 0..n} :
        \A i, j \in 1..Len(l) : i # j => l[i] # l[j]}

\* the per-token safeReads getPools maps over its tokens, stage by stage
PoolsStages == <<"getBuyPrice", "getSellPrice", "getReserves">>

RowPool(token, buyPrice, sellPrice, totalLiquidity) ==
    [token |-> token, buyPrice |-> buyPrice, sellPrice |-> sellPrice, totalLiquidity |-> totalLiquidity]

RECURSIVE FlatMap(_, _)
FlatMap(evs, n) == IF n = 0 THEN <<>> ELSE FlatMap(evs, n - 1) \o evs

RECURSIVE MetaReadsAll(_)
MetaReadsAll(addrs) ==
    IF addrs = <<>> THEN <<>> ELSE MetaReads(Head(addrs)) \o MetaReadsAll(Tail(addrs))

\* the Promise.all of lines 770-774, whose map calls getTotalLiquidity token by
\* token, and the rows of lines 775-780; the first throw is what fn throws
PoolRows(tokens, buyPrices, sellPrices, reserves) ==
    LET n == Len(tokens)
        liquidity == [i \in 1..n |->
                        getTotalLiquidity(getAvgPrice(buyPrices[i], sellPrices[i]), reserves[i])]
        thrown == {i \in 1..n : liquidity[i].kind = "throw"} IN
    IF thrown # {}
    THEN liquidity[CHOOSE i \in thrown : \A j \in thrown : i <= j]
    ELSE Return([i \in 1..n |-> RowPool(tokens[i], buyPrices[i], sellPrices[i], liquidity[i].val)])

CallGetPools ==
    /\ pc = "idle"
    /\ client = "ok"
    /\ \E n \in 1..MaxPools :
        /\ op' = "getPools"
        /\ args' = [startIndex |-> 0, offset |-> n]
        /\ local' = NoLocal
        /\ txs' = <<>>
        /\ IF ensureCanRead # NoError
           THEN /\ calls' = <<GuardEvent>>
                /\ outcome' = Throw(ensureCanRead)
                /\ pc' = "done"
           ELSE /\ calls' = <<GuardEvent, ReadEvent("getPoolList", PoolContract)>>
                /\ outcome' = Pending
                /\ pc' = "awaitPoolList"
    /\ UNCHANGED <<config, client, chainId, publicClient>>

\* the getPoolList read settles (lines 758-766)
PoolListSettles ==
    /\ pc = "awaitPoolList"
    /\ \E resp \in {Fulfilled(<<>>)} \cup {Fulfilled(<<l>>) : l \in AddressLists(args.offset)}
                   \cup {Rejected(e) : e \in RpcErrors} :
        IF ~resp.ok
        THEN /\ outcome' = safeReadSettle("getPools", <<>>, Throw(resp.err))
             /\ pc' = "done"
             /\ local' = [resp |-> resp]
             /\ calls' = calls
        ELSE IF resp.data = <<>> \/ resp.data[1] = <<>>
        THEN /\ outcome' = safeReadSettle("getPools", <<>>, Return(<<>>))
             /\ pc' = "done"
             /\ local' = [resp |-> resp]
             /\ calls' = calls
        ELSE IF ~publicClient
        THEN /\ outcome' = safeReadSettle("getPools", <<>>, Throw(ensureCanRead))
             /\ pc' = "done"
             /\ local' = [addresses |-> resp.data[1]]
             /\ calls' = calls \o FlatMap(NestedStart(PoolsStages[1]), Len(resp.data[1]))
        ELSE /\ outcome' = Pending
             /\ pc' = "awaitTokens"
             /\ local' = [addresses |-> resp.data[1]]
             /\ calls' = calls \o MetaReadsAll(resp.data[1])
    /\ UNCHANGED <<config, client, chainId, publicClient, op, args, txs>>

\* Promise.all of the getToken calls settles (line 766)
PoolTokensSettles ==
    /\ pc = "awaitTokens"
    /\ \E resp \in AllResponses, k \in 1..Len(local.addresses) :
        LET tok == getTokenOutcome(local.addresses[k], resp) IN
        IF tok.kind = "throw"
        THEN /\ outcome' = safeReadSettle("getPools", <<>>, tok)
             /\ pc' = "done"
             /\ local' = [addresses |-> local.addresses, tokenFailed |-> k, resp |-> resp]
             /\ calls' = calls
        ELSE IF ensureCanRead # NoError
        THEN /\ k = 1
             /\ outcome' = safeReadSettle("getPools", <<>>, Throw(ensureCanRead))
             /\ pc' = "done"
             /\ local' = [addresses |-> local.addresses, stage |-> 1, got |-> <<>>]
             /\ calls' = calls \o FlatMap(NestedStart(PoolsStages[1]), Len(local.addresses))
        ELSE /\ k = 1
             /\ outcome' = Pending
             /\ pc' = "awaitStage"
             /\ local' = [addresses |-> local.addresses, stage |-> 1, got |-> <<>>]
             /\ calls' = calls \o FlatMap(NestedStart(PoolsStages[1]), Len(local.addresses))
    /\ UNCHANGED <<config, client, chainId, publicClient, op, args, txs>>

\* Promise.all of one stage's per-token safeReads settles (lines 767-781)
PoolStageSettles ==
    /\ pc = "awaitStage"
    /\ LET o == PoolsStages[local.stage]
           n == Len(local.addresses) IN
       \E resps \in [1..n -> {Fulfilled(d) : d \in LedgerData(NestedFn(o))} \cup {Rejected(e) : e \in RpcErrors}] :
        LET inner == [i \in 1..n |-> NestedOutcome(o, resps[i])]
            thrown == {i \in 1..n : inner[i].kind = "throw"}
            got == Append(local.got, [i \in 1..n |-> inner[i].val]) IN
        IF thrown # {}
        THEN /\ \E i \in thrown : outcome' = safeReadSettle("getPools", <<>>, inner[i])
             /\ pc' = "done"
             /\ local' = [local EXCEPT !.got = <<>>]
             /\ calls' = calls
        ELSE IF local.stage = Len(PoolsStages)
        THEN /\ outcome' = safeReadSettle("getPools", <<>>,
                    PoolRows([i \in 1..n |-> Token(local.addresses[i])], got[1], got[2], got[3]))
             /\ pc' = "done"
             /\ local' = [local EXCEPT !.got = got]
             /\ calls' = calls
        ELSE IF ensureCanRead # NoError
        THEN /\ outcome' = safeReadSettle("getPools", <<>>, Throw(ensureCanRead))
             /\ pc' = "done"
             /\ local' = [local EXCEPT !.got = got, !.stage = local.stage + 1]
             /\ calls' = calls \o FlatMap(NestedStart(PoolsStages[local.stage + 1]), n)
        ELSE /\ outcome' = Pending
             /\ pc' = "awaitStage"
             /\ local' = [local EXCEPT !.got = got, !.stage = local.stage + 1]
             /\ calls' = calls \o FlatMap(NestedStart(PoolsStages[local.stage + 1]), n)
    /\ UNCHANGED <<config, client, chainId, publicClient, op, args, txs>>

\* the caller takes the outcome; the client is idle again
Finish ==
    /\ pc = "done"
    /\ pc' = "idle"
    /\ op' = ""
    /\ args' = NoLocal
    /\ calls' = <<>>
    /\ local' = NoLocal
    /\ outcome' = Pending
    /\ txs' = <<>>
    /\ UNCHANGED <<config, client, chainId, publicClient>>

Init ==
    /\ config \in SUBSET Chains
    /\ client = "none"
    /\ chainId = DefaultChain
    /\ publicClient = FALSE
    /\ op = ""
    /\ pc = "idle"
    /\ args = NoLocal
    /\ calls = <<>>
    /\ local = NoLocal
    /\ outcome = Pending
    /\ txs = <<>>

Next ==
    \/ Construct
    \/ CallWrappedRead
    \/ WrappedReadSettles
    \/ CallUnwrappedRead
    \/ UnwrappedReadSettles
    \/ LPAddressSettles
    \/ LPSupplySettles
    \/ LPMetaSettles
    \/ CallGetPool
    \/ PoolTailSettles
    \/ CallGetPools
    \/ PoolListSettles
    \/ PoolTokensSettles
    \/ PoolStageSettles
    \/ CallMutation
    \/ ApproveSettles
    \/ PrimarySettles
    \/ IncludeTx
    \/ Finish

Spec == Init /\ [][Next]_vars

(***************************************************************************)
(* ensureCanRead and safeRead read this.chainId, CONTRACT_ADDRESSES and    *)
(* this.publicClient and nothing else of the client: GuardSpec applies the *)
(* safeRead-wrapped methods to every combination of the three.             *)
(***************************************************************************)
GuardInit ==
    /\ config \in SUBSET Chains
    /\ client = "ok"
    /\ chainId \in Chains
    /\ publicClient \in BOOLEAN
    /\ op = ""
    /\ pc = "idle"
    /\ args = NoLocal
    /\ calls = <<>>
    /\ local = NoLocal
    /\ outcome = Pending
    /\ txs = <<>>

GuardNext ==
    \/ CallWrappedRead
    \/ WrappedReadSettles
    \/ CallGetPool
    \/ LPAddressSettles
    \/ LPSupplySettles
    \/ LPMetaSettles
    \/ PoolTailSettles
    \/ CallGetPools
    \/ PoolListSettles
    \/ PoolTokensSettles
    \/ PoolStageSettles
    \/ Finish

GuardSpec == GuardInit /\ [][GuardNext]_vars

(***************************************************************************)
(* publicClient is a public, assignable field of the client (line 40) and  *)
(* CONTRACT_ADDRESSES an imported table (line 1): NestSpec runs getPool and *)
(* getPools on a client whose owner may, while an invocation is waiting for *)
(* the ledger, clear the read handle or drop the chain's entry.  The inner  *)
(* safeReads started after that fail at their guard.                        *)
(***************************************************************************)
GuardStateChanges ==
    /\ pc \notin {"idle", "done"}
    /\ ensureCanRead = NoError
    /\ \/ publicClient' = FALSE /\ config' = config
       \/ publicClient' = publicClient /\ config' = config \ {chainId}
    /\ UNCHANGED <<client, chainId, op, pc, args, calls, local, outcome, txs>>

NestInit ==
    /\ config = {DefaultChain}
    /\ client = "ok"
    /\ chainId = DefaultChain
    /\ publicClient = TRUE
    /\ op = ""
    /\ pc = "idle"
    /\ args = NoLocal
    /\ calls = <<>>
    /\ local = NoLocal
    /\ outcome = Pending
    /\ txs = <<>>

NestNext ==
    \/ CallGetPool
    \/ LPAddressSettles
    \/ LPSupplySettles
    \/ LPMetaSettles
    \/ PoolTailSettles
    \/ CallGetPools
    \/ PoolListSettles
    \/ PoolTokensSettles
    \/ PoolStageSettles
    \/ GuardStateChanges
    \/ Finish

NestSpec == NestInit /\ [][NestNext]_vars

(***************************************************************************)
(* get24hBeforeBlock (lines 569-582) over getBlockTimestamp (403-410).     *)
(* The ledger is a chain of blocks 0..latestBlock whose timestamps, in      *)
(* seconds, never decrease; the clock is read anew at every probe and       *)
(* never runs backwards.  SearchSpec runs the search on every such chain.   *)
(***************************************************************************)
MaxBlock == 4

\* block timestamps in seconds
TimeStamps == {100000, 113600, 113601, 150000}

\* the clock, in milliseconds, at the first probe and possibly one second later
Nows == {200000000, 200001000}

Chains24h ==
    UNION {[0..n -> TimeStamps] : n \in 0..MaxBlock}

Monotone(ts) == \A i, j \in DOMAIN ts : i <= j => ts[i] <= ts[j]

TimestampPrefix == <<"Error", " ", "fetching", " ", "block", " ", "timestamp", ":", " ">>

midBlockOfPastHalf(low, high) == (low + high) \div 2 + 1

\* Math.round(Number(lowBlock + highBlock) / 2): a half rounds up
midBlockOf(low, high) == (low + high + 1) \div 2

\* return Number(block!.timestamp) * 1000
getBlockTimestamp(seconds) == seconds * 1000

IsRecentInclusive(clock, midTimestamp) == clock - midTimestamp <= 24 * 60 * 60 * 1000

\* Date.now() - midTimestamp < 24 * 60 * 60 * 1000
IsRecent(clock, midTimestamp) == clock - midTimestamp < 24 * 60 * 60 * 1000

\* the loop test and, where it holds, the probe the next iteration issues
SearchLoop(low, high, now, before) ==
    IF low <= high
    THEN /\ local' = [lowBlock |-> low, highBlock |-> high,
                      midBlock |-> midBlockOf(low, high), now |-> now]
         /\ calls' = Append(before, ReadEvent("getBlock", midBlockOf(low, high)))
         /\ outcome' = Pending
         /\ pc' = "awaitTimestamp"
    ELSE /\ local' = [lowBlock |-> low, highBlock |-> high, now |-> now]
         /\ calls' = before
         /\ outcome' = Return(low)
         /\ pc' = "done"

Call24hBeforeBlock ==
    /\ pc = "idle"
    /\ op' = "get24hBeforeBlock"
    /\ local' = [lowBlock |-> 0, now |-> args.now]
    /\ calls' = <<ReadEvent("getBlockNumber", PoolContract)>>
    /\ pc' = "awaitBlockNumber"
    /\ UNCHANGED <<config, client, chainId, publicClient, args, outcome, txs>>

\* highBlock = await this.publicClient!.getBlockNumber()
BlockNumberSettles ==
    /\ pc = "awaitBlockNumber"
    /\ op = "get24hBeforeBlock"
    /\ \/ SearchLoop(0, args.latestBlock, local.now, calls)
       \/ \E e \in RpcErrors :
            /\ outcome' = Throw(e)
            /\ pc' = "done"
            /\ UNCHANGED <<local, calls>>
    /\ UNCHANGED <<config, client, chainId, publicClient, op, args, txs>>

\* getBlockTimestamp(midBlock) settles; the clock is read; the range is halved
MidTimestampSettles ==
    /\ pc = "awaitTimestamp"
    /\ \/ \E now \in {n \in Nows : n >= local.now} :
            IF IsRecent(now, getBlockTimestamp(args.timestamps[local.midBlock]))
            THEN SearchLoop(local.lowBlock, local.midBlock - 1, now, calls)
            ELSE SearchLoop(local.midBlock + 1, local.highBlock, now, calls)
       \/ \E e \in RpcErrors :
            /\ outcome' = Throw(NewError(TimestampPrefix \o MessageOf(e)))
            /\ pc' = "done"
            /\ UNCHANGED <<local, calls>>
    /\ UNCHANGED <<config, client, chainId, publicClient, op, args, txs>>

SearchInit ==
    /\ config = {DefaultChain}
    /\ client = "ok"
    /\ chainId = DefaultChain
    /\ publicClient = TRUE
    /\ op = ""
    /\ pc = "idle"
    /\ \E ts \in {c \in Chains24h : Monotone(c)}, now \in Nows :
            args = [latestBlock |-> Cardinality(DOMAIN ts) - 1, timestamps |-> ts, now |-> now]
    /\ calls = <<>>
    /\ local = NoLocal
    /\ outcome = Pending
    /\ txs = <<>>

SearchNext ==
    \/ Call24hBeforeBlock
    \/ BlockNumberSettles
    \/ MidTimestampSettles

SearchSpec == SearchInit /\ [][SearchNext]_vars

\* every awaited request settles, by an answer or by a rejection
SearchLiveSpec == SearchSpec /\ WF_vars(SearchNext)

(***************************************************************************)
(* The event-log queries (lines 412-567 and 634-694).  The ledger keeps    *)
(* its logs in block order; getLogs answers with the logs of one event in  *)
(* a block range whose indexed arguments equal the filter's given fields.  *)
(* A query is a chain of awaits: getLogs, the Promise.all of the block     *)
(* timestamps and the Promise.all of the getToken calls; each await        *)
(* settles in one step.                                                     *)
(***************************************************************************)
OtherToken == "0xT3"

Traders == {"0xU1", "0xU2"}

\* seconds of block b on the ledger's chain
BlockSeconds(b) == 100000 + b

BuyTradeLog(b, tok, who, eth) ==
    [event |-> "BuyTrade", blockNumber |-> b, token |-> tok, trader |-> who,
     amountEther |-> eth, amountToken |-> 1, tradeBuyPrice |-> 7, updatedBuyPrice |-> 8, sellPrice |-> 6]

SellTradeLog(b, tok, who, eth) ==
    [event |-> "SellTrade", blockNumber |-> b, token |-> tok, trader |-> who,
     amountToken |-> 1, amountEther |-> eth, tradeSellPrice |-> 6, updatedSellPrice |-> 5, buyPrice |-> 7]

\* amounts and prices of a swap are whole numbers of 10^9 base units, given as that count
SwapTradeLog(b, sold, bought, who, amountSold, amountBought) ==
    [event |-> "SwapTrade", blockNumber |-> b, tokenSold |-> sold, tokenBought |-> bought, trader |-> who,
     amountTokenSold |-> amountSold, amountTokenBought |-> amountBought,
     tradeSellPrice |-> 3, updatedSellPrice |-> 2, tradeBuyPrice |-> 5, updatedBuyPrice |-> 6]

DepositLog(b, tok, who, eth) ==
    [event |-> "Deposit", blockNumber |-> b, token |-> tok, user |-> who,
     amountEther |-> eth, amountToken |-> 4, lpTokensMinted |-> 2]

WithdrawLog(b, tok, who, eth) ==
    [event |-> "Withdraw", blockNumber |-> b, token |-> tok, user |-> who,
     amountEther |-> eth, amountToken |-> 4, lpTokensBurned |-> 2]

EventQueries ==
    {"getBuyTradeEventLogs", "getSellTradeEventLogs", "getSwapTradeEventLogs",
     "getDepositEventLogs", "getWithdrawEventLogs"}

EventOf(method) ==
    CASE method = "getBuyTradeEventLogs" -> "BuyTrade"
      [] method = "getSellTradeEventLogs" -> "SellTrade"
      [] method = "getSwapTradeEventLogs" -> "SwapTrade"
      [] method = "getDepositEventLogs" -> "Deposit"
      [] method = "getWithdrawEventLogs" -> "Withdraw"

\* token?.address: <<>> when the token is omitted
OptAddress(token) == IF token = <<>> THEN <<>> ELSE <<token[1].address>>

\* the args of the getLogs call; a field left undefined (<<>>) filters nothing
FilterOf(method, half, token, user) ==
    CASE method \in {"getBuyTradeEventLogs", "getSellTradeEventLogs"} ->
            [token |-> OptAddress(token), trader |-> user]
      [] method \in {"getDepositEventLogs", "getWithdrawEventLogs"} ->
            [token |-> OptAddress(token), user |-> user]
      [] method = "getSwapTradeEventLogs" /\ half = "in" -> [tokenSold |-> OptAddress(token)]
      [] method = "getSwapTradeEventLogs" /\ half = "out" -> [tokenBought |-> OptAddress(token)]
      [] OTHER -> [trader |-> user]

Matches(log, filter) ==
    \A k \in DOMAIN filter : filter[k] = <<>> \/ log[k] = filter[k][1]

\* publicClient.getLogs({fromBlock, toBlock, event, args}) on the ledger's logs
getLogs(ledger, event, fromBlock, toBlock, filter) ==
    SelectSeq(ledger, LAMBDA l : /\ l.event = event
                                 /\ l.blockNumber >= fromBlock
                                 /\ l.blockNumber <= toBlock
                                 /\ Matches(l, filter))

\* bigint.toString() of a count of 10^9 base units
ScaledString(k) == IF k = 0 THEN "0" ELSE ToString(k) \o "000000000"

\* the record built from one log (the .map bodies), its block's timestamp resolved
RecordOf(t, log) ==
    LET timestamp == BlockSeconds(log.blockNumber) * 1000
        given == IF t.token = <<>> THEN <<>> ELSE t.token[1] IN
    CASE log.event = "BuyTrade" ->
            [token |-> IF t.token = <<>> THEN Token(log.token) ELSE given,
             buyPrice |-> ToString(log.tradeBuyPrice),
             updatedBuyPrice |-> ToString(log.updatedBuyPrice),
             ethAmount |-> ToString(log.amountEther),
             sellPrice |-> ToString(log.sellPrice),
             timestamp |-> timestamp]
      [] log.event = "SellTrade" ->
            [token |-> IF t.token = <<>> THEN Token(log.token) ELSE given,
             sellPrice |-> ToString(log.tradeSellPrice),
             updatedSellPrice |-> ToString(log.updatedSellPrice),
             ethAmount |-> ToString(log.amountEther),
             buyPrice |-> ToString(log.buyPrice),
             timestamp |-> timestamp]
      [] log.event = "Deposit" ->
            [token |-> IF t.token = <<>> THEN Token(log.token) ELSE given,
             ethAmount |-> ToString(log.amountEther),
             tokenAmount |-> ToString(log.amountToken),
             lpTokensMinted |-> ToString(log.lpTokensMinted),
             timestamp |-> timestamp]
      [] log.event = "Withdraw" ->
            [token |-> IF t.token = <<>> THEN Token(log.token) ELSE given,
             ethAmount |-> ToString(log.amountEther),
             tokenAmount |-> ToString(log.amountToken),
             lpTokensBurnt |-> ToString(log.lpTokensBurned),
             timestamp |-> timestamp]
      [] log.event = "SwapTrade" ->
            [token |-> t.token,
             tokenIn |-> IF t.half = "in" THEN given ELSE Token(log.tokenSold),
             tokenOut |-> IF t.half = "out" THEN given ELSE Token(log.tokenBought),
             amountIn |-> ScaledString(log.amountTokenSold),
             amountOut |-> ScaledString(log.amountTokenBought),
             sellPrice |-> ScaledString(log.tradeSellPrice),
             buyPrice |-> ScaledString(log.tradeBuyPrice),
             updatedBuyPrice |-> ScaledString(log.updatedBuyPrice),
             updatedSellPrice |-> ScaledString(log.updatedSellPrice),
             timestamp |-> timestamp]

RecordsOf(t) == [i \in 1..Len(t.logs) |-> RecordOf(t, t.logs[i])]

ConcatSwapsOutFirst(swapInTrades, swapOutTrades) == swapOutTrades \o swapInTrades

\* return swapInTrades.concat(swapOutTrades)  (line 565)
ConcatSwaps(swapInTrades, swapOutTrades) == swapInTrades \o swapOutTrades

\* the getLogs call a query at stage "logs" has in flight
LogsEvent(t) ==
    [kind |-> "read", fn |-> "getLogs", event |-> EventOf(t.method),
     fromBlock |-> t.fromBlock, toBlock |-> t.toBlock,
     filter |-> FilterOf(t.method, t.half, t.token, t.user)]

\* the method up to its first await.  getSwapTradeEventLogs without a user
\* hands token! to swapInEventLogs, whose fn reads tokenIn.address first.
StartQuery(method, fromBlock, toBlock, token, user) ==
    LET half == IF method = "getSwapTradeEventLogs" /\ user = <<>> THEN "in" ELSE ""
        t == [method |-> method, fromBlock |-> fromBlock, toBlock |-> toBlock,
              token |-> token, user |-> user, half |-> half, stage |-> "logs",
              logs |-> <<>>, part |-> <<>>, failed |-> FALSE, outcome |-> Pending] IN
    IF half = "in" /\ token = <<>>
    THEN [t EXCEPT !.stage = "done",
                   !.outcome = safeReadSettle(method, <<>>,
                                   safeReadSettle("swapInEventLogs", <<>>, Throw(UndefinedTypeError)))]
    ELSE t

\* the fn of one safeRead has returned records
FinishHalf(t, records) ==
    CASE t.half = "in" ->
            [t EXCEPT !.part = records, !.half = "out", !.stage = "logs", !.logs = <<>>]
      [] t.half = "out" ->
            [t EXCEPT !.stage = "done", !.outcome = Return(ConcatSwaps(t.part, records))]
      [] OTHER ->
            [t EXCEPT !.stage = "done", !.outcome = Return(records)]

\* what the await at this stage throws when its request is rejected with err
StageError(stage, err) ==
    CASE stage = "logs" -> err
      [] stage = "timestamps" -> NewError(TimestampPrefix \o MessageOf(err))
      [] OTHER -> NewError(TokenPrefix \o MessageOf(err))

\* the fn threw err: swapIn/swapOut's own safeRead first, then the method's
FailStage(t, err) ==
    LET inner == IF t.half = "" THEN Throw(err)
                 ELSE safeReadSettle(IF t.half = "in" THEN "swapInEventLogs" ELSE "swapOutEventLogs",
                                     <<>>, Throw(err)) IN
    IF inner.kind = "return"
    THEN FinishHalf([t EXCEPT !.failed = TRUE], inner.val)
    ELSE [t EXCEPT !.stage = "done", !.failed = TRUE,
                   !.outcome = safeReadSettle(t.method, <<>>, inner)]

\* the token metadata a query resolves per log: none when its token was given
TokenStages(t) ==
    IF t.half # "" THEN <<"tokens">>
    ELSE IF t.method = "getSwapTradeEventLogs" THEN <<"tokensIn", "tokensOut">>
    ELSE IF t.token = <<>> THEN <<"tokens">>
    ELSE <<>>

\* the await a query is at settles with resp
SettleQuery(t, resp, ledger) ==
    IF ~resp.ok THEN FailStage(t, StageError(t.stage, resp.err))
    ELSE CASE t.stage = "logs" ->
                LET found == getLogs(ledger, EventOf(t.method), t.fromBlock, t.toBlock,
                                     FilterOf(t.method, t.half, t.token, t.user)) IN
                IF found = <<>> THEN FinishHalf(t, <<>>)
                ELSE [t EXCEPT !.logs = found, !.stage = "timestamps"]
           [] t.stage = "timestamps" ->
                IF TokenStages(t) = <<>> THEN FinishHalf(t, RecordsOf(t))
                ELSE [t EXCEPT !.stage = TokenStages(t)[1]]
           [] t.stage = "tokensIn" -> [t EXCEPT !.stage = "tokensOut"]
           [] OTHER -> FinishHalf(t, RecordsOf(t))

\* what a safeRead does up to its fn's first await: the guard, then the getLogs call
IssueEvents(t) == <<GuardEvent, LogsEvent(t)>>

\* the events of the method up to its first await
StartEvents(t) ==
    IF t.half = ""
    THEN IssueEvents(t)
    ELSE IF t.stage = "done" THEN <<GuardEvent, GuardEvent>>
    ELSE <<GuardEvent>> \o IssueEvents(t)

\* the events of the step that took a query from t to u
NewIssues(t, u) ==
    IF u.stage = "logs" /\ u.half # t.half THEN IssueEvents(u) ELSE <<>>

MaxLogBlock == 4

\* a ledger with every event, for tokens on either side of a swap, on both and
\* on neither
LogsLedger ==
    <<SwapTradeLog(1, "0xT2", "0xT1", "0xU1", 2, 3),
      BuyTradeLog(1, "0xT1", "0xU1", 3),
      SwapTradeLog(2, "0xT1", "0xT2", "0xU2", 4, 1),
      DepositLog(2, "0xT2", "0xU1", 5),
      SellTradeLog(3, "0xT2", "0xU1", 2),
      SwapTradeLog(3, "0xT2", OtherToken, "0xU1", 1, 1),
      SwapTradeLog(3, "0xT1", "0xT1", "0xU2", 2, 2),
      WithdrawLog(3, "0xT1", "0xU2", 1),
      SwapTradeLog(4, "0xT1", OtherToken, "0xU1", 2, 2),
      BuyTradeLog(4, "0xT2", "0xU2", 4),
      DepositLog(4, "0xT1", "0xU2", 6),
      SellTradeLog(4, "0xT1", "0xU2", 7),
      WithdrawLog(4, "0xT2", "0xU1", 3)>>

\* safeRead up to the first await of the query
CallEventLogs ==
    /\ pc = "idle"
    /\ client = "ok"
    /\ \E method \in EventQueries, fromBlock \in 0..MaxLogBlock, toBlock \in 0..MaxLogBlock,
          token \in {<<>>} \cup {<<Token(a)>> : a \in TokenAddresses},
          user \in {<<>>} \cup {<<u>> : u \in Traders} :
        LET t == StartQuery(method, fromBlock, toBlock, token, user) IN
        /\ fromBlock <= toBlock
        /\ op' = method
        /\ args' = [fromBlock |-> fromBlock, toBlock |-> toBlock, token |-> token, user |-> user,
                    ledger |-> LogsLedger]
        /\ txs' = <<>>
        /\ IF ensureCanRead # NoError
           THEN /\ calls' = <<GuardEvent>>
                /\ local' = NoLocal
                /\ outcome' = Throw(ensureCanRead)
                /\ pc' = "done"
           ELSE /\ calls' = StartEvents(t)
                /\ local' = [task |-> t]
                /\ outcome' = t.outcome
                /\ pc' = IF t.stage = "done" THEN "done" ELSE "awaitLogs"
    /\ UNCHANGED <<config, client, chainId, publicClient>>

\* the await the query is at settles
EventLogsSettles ==
    /\ pc = "awaitLogs"
    /\ \E resp \in AllResponses :
        LET t == SettleQuery(local.task, resp, args.ledger) IN
        /\ local' = [task |-> t]
        /\ calls' = calls \o NewIssues(local.task, t)
        /\ outcome' = t.outcome
        /\ pc' = IF t.stage = "done" THEN "done" ELSE "awaitLogs"
    /\ UNCHANGED <<config, client, chainId, publicClient, op, args, txs>>

LogsInit ==
    /\ config = {DefaultChain}
    /\ client = "ok"
    /\ chainId = DefaultChain
    /\ publicClient \in BOOLEAN
    /\ op = ""
    /\ pc = "idle"
    /\ args = NoLocal
    /\ calls = <<>>
    /\ local = NoLocal
    /\ outcome = Pending
    /\ txs = <<>>

LogsNext ==
    \/ CallEventLogs
    \/ EventLogsSettles
    \/ Finish

LogsSpec == LogsInit /\ [][LogsNext]_vars

(***************************************************************************)
(* get24hVolume (lines 584-620).  The chain's blocks 0..toBlock have the   *)
(* timestamps BlockSeconds; the clock stands at args.now.  The nested      *)
(* get24hBeforeBlock is awaited alone, so its loop is taken here as the    *)
(* function it computes.  The three queries of a batch run concurrently:   *)
(* any of them may take its next step.                                      *)
(***************************************************************************)
BLOCK_BATCH_SIZE == 999

Min(a, b) == IF a < b THEN a ELSE b

\* the loop of lines 572-580 on the chain, from lowBlock and highBlock on
RECURSIVE get24hBeforeBlock(_, _, _)
get24hBeforeBlock(lowBlock, highBlock, now) ==
    IF lowBlock <= highBlock
    THEN LET midBlock == midBlockOf(lowBlock, highBlock) IN
         IF IsRecent(now, getBlockTimestamp(BlockSeconds(midBlock)))
         THEN get24hBeforeBlock(lowBlock, midBlock - 1, now)
         ELSE get24hBeforeBlock(midBlock + 1, highBlock, now)
    ELSE lowBlock

\* Number(s) / 10^9 of the decimal string of a whole number of 10^9 base units
ScaledNumberOf(s) == CHOOSE k \in 0..99 : ScaledString(k) = s

\* buyLogs.forEach / sellLogs.forEach: volume += Number(log.ethAmount)
RECURSIVE EthVolume(_)
EthVolume(logs) ==
    IF logs = <<>> THEN 0 ELSE NumberOf(Head(logs).ethAmount) + EthVolume(Tail(logs))

\* (Number(amount) * Number(price)) / 1e18, both whole numbers of 10^9
ImputedEth(amount, price) == ScaledNumberOf(amount) * ScaledNumberOf(price)

\* the body of swapLogs.forEach (lines 612-616)
SwapVolumeOf(log, token) ==
    IF log.tokenIn.address = token.address THEN ImputedEth(log.amountIn, log.sellPrice)
    ELSE IF log.tokenOut.address = token.address THEN ImputedEth(log.amountOut, log.buyPrice)
    ELSE 0

RECURSIVE SwapVolume(_, _)
SwapVolume(logs, token) ==
    IF logs = <<>> THEN 0 ELSE SwapVolumeOf(Head(logs), token) + SwapVolume(Tail(logs), token)

\* lines 608-618
VolumeOf(buyLogs, sellLogs, swapLogs, token) ==
    ToString(EthVolume(buyLogs) + EthVolume(sellLogs) + SwapVolume(swapLogs, token))

BatchMethods ==
    [buy |-> "getBuyTradeEventLogs", sell |-> "getSellTradeEventLogs", swap |-> "getSwapTradeEventLogs"]

PromiseAnySettled(tasks) == \E q \in DOMAIN tasks : tasks[q].stage = "done"

\* await Promise.all([...]) goes on when every query has given its result
PromiseAllSettled(tasks) == \A q \in DOMAIN tasks : tasks[q].stage = "done"

\* the loop test (line 596) and, where it holds, the three calls of lines 599-601
ScanLoop(currentBlock, targetBlock, logs, rejected, before) ==
    IF currentBlock < targetBlock
    THEN LET batchEndBlock == Min(currentBlock + BLOCK_BATCH_SIZE, targetBlock)
             tasks == [q \in DOMAIN BatchMethods |->
                         StartQuery(BatchMethods[q], currentBlock, batchEndBlock, <<args.token>>, <<>>)] IN
         /\ local' = [toBlock |-> targetBlock, currentBlock |-> currentBlock,
                      batchEndBlock |-> batchEndBlock, logs |-> logs, tasks |-> tasks,
                      rejected |-> rejected]
         /\ calls' = before \o StartEvents(tasks.buy) \o StartEvents(tasks.sell) \o StartEvents(tasks.swap)
         /\ outcome' = Pending
         /\ pc' = "awaitBatch"
    ELSE /\ local' = [toBlock |-> targetBlock, currentBlock |-> currentBlock, logs |-> logs,
                      rejected |-> rejected]
         /\ calls' = before
         /\ outcome' = safeReadSettle("get24hVolume", "0",
                           Return(VolumeOf(logs.buy, logs.sell, logs.swap, args.token)))
         /\ pc' = "done"

\* safeRead's guard, then const toBlock = await getBlockNumber()
CallGet24hVolume ==
    /\ pc = "idle"
    /\ client = "ok"
    /\ op' = "get24hVolume"
    /\ IF ensureCanRead # NoError
       THEN /\ calls' = <<GuardEvent>>
            /\ outcome' = Throw(ensureCanRead)
            /\ pc' = "done"
       ELSE /\ calls' = <<GuardEvent, ReadEvent("getBlockNumber", PoolContract)>>
            /\ outcome' = Pending
            /\ pc' = "awaitToBlock"
    /\ local' = [rejected |-> 0]
    /\ UNCHANGED <<config, client, chainId, publicClient, args, txs>>

ToBlockSettles ==
    /\ pc = "awaitToBlock"
    /\ \/ /\ local' = [toBlock |-> args.toBlock, rejected |-> 0]
          /\ calls' = Append(calls, ReadEvent("getBlockNumber", PoolContract))
          /\ outcome' = Pending
          /\ pc' = "awaitFromBlock"
       \/ \E e \in RpcErrors :
            /\ local' = [rejected |-> 1]
            /\ calls' = calls
            /\ outcome' = safeReadSettle("get24hVolume", "0", Throw(e))
            /\ pc' = "done"
    /\ UNCHANGED <<config, client, chainId, publicClient, op, args, txs>>

\* const fromBlock = await this.get24hBeforeBlock() settles; the scan begins
FromBlockSettles ==
    /\ pc = "awaitFromBlock"
    /\ \/ ScanLoop(get24hBeforeBlock(0, args.toBlock, args.now), local.toBlock,
                   [buy |-> <<>>, sell |-> <<>>, swap |-> <<>>], 0, calls)
       \/ \E e \in RpcErrors : \E thrown \in {e, NewError(TimestampPrefix \o MessageOf(e))} :
            /\ local' = [toBlock |-> local.toBlock, rejected |-> 1]
            /\ calls' = calls
            /\ outcome' = safeReadSettle("get24hVolume", "0", Throw(thrown))
            /\ pc' = "done"
    /\ UNCHANGED <<config, client, chainId, publicClient, op, args, txs>>

\* the requests of the scan that the ledger may reject in one invocation
MaxRejected == 1

\* one query of the batch takes its next step; with the last one done the
\* batch's logs are appended and the loop goes round (lines 603-606)
BatchQuerySettles ==
    /\ pc = "awaitBatch"
    /\ \E q \in DOMAIN BatchMethods,
          resp \in IF local.rejected < MaxRejected THEN AllResponses ELSE {Fulfilled(<<"all">>)} :
        LET old == local.tasks[q]
            t == SettleQuery(old, resp, args.ledger)
            tasks == [local.tasks EXCEPT ![q] = t]
            rejected == IF resp.ok THEN local.rejected ELSE local.rejected + 1
            events == calls \o NewIssues(old, t) IN
        /\ old.stage # "done"
        /\ IF t.outcome.kind = "throw"
           THEN /\ local' = [local EXCEPT !.tasks = tasks, !.rejected = rejected]
                /\ calls' = events
                /\ outcome' = safeReadSettle("get24hVolume", "0", t.outcome)
                /\ pc' = "done"
           ELSE IF PromiseAllSettled(tasks)
           THEN ScanLoop(local.batchEndBlock + 1, local.toBlock,
                         [k \in DOMAIN BatchMethods |-> local.logs[k] \o tasks[k].outcome.val],
                         rejected, events)
           ELSE /\ local' = [local EXCEPT !.tasks = tasks, !.rejected = rejected]
                /\ calls' = events
                /\ outcome' = Pending
                /\ pc' = "awaitBatch"
    /\ UNCHANGED <<config, client, chainId, publicClient, op, args, txs>>

\* toBlock - fromBlock of the windows scanned: none, one batch, and around the batch edges
Spans == {-1, 0, 1, 999, 1000, 1001, 1999, 2001}

ToBlocks == {1, 3000}

\* the trades of one block: a buy and a sell of the token, a swap selling it,
\* a swap buying it and a swap of two other tokens
TradesAt(b, x) ==
    <<BuyTradeLog(b, x, "0xU1", 3),
      SwapTradeLog(b, "0xT2", x, "0xU2", 1, 4),
      SellTradeLog(b, x, "0xU1", 5),
      SwapTradeLog(b, x, "0xT2", "0xU1", 2, 1),
      SwapTradeLog(b, "0xT2", OtherToken, "0xU1", 1, 1)>>

\* the blocks that hold trades: none, the newest block, the window's ends and
\* the block before it, the blocks on either side of the first batch's end
TradeBlocks(fromBlock, toBlock) ==
    {{}, {toBlock} \cap (0..toBlock), {fromBlock - 1, fromBlock, toBlock} \cap (0..toBlock),
     {fromBlock + BLOCK_BATCH_SIZE, fromBlock + BLOCK_BATCH_SIZE + 1} \cap (0..toBlock)}

RECURSIVE LedgerOf(_, _)
LedgerOf(blocks, x) ==
    IF blocks = {} THEN <<>>
    ELSE LET b == CHOOSE m \in blocks : \A n \in blocks : m <= n IN
         TradesAt(b, x) \o LedgerOf(blocks \ {b}, x)

ScanInit ==
    /\ config = {DefaultChain}
    /\ client = "ok"
    /\ chainId = DefaultChain
    /\ publicClient \in BOOLEAN
    /\ op = ""
    /\ pc = "idle"
    /\ \E toBlock \in ToBlocks, span \in Spans :
        LET fromBlock == toBlock - span IN
        /\ fromBlock >= 0
        /\ \E blocks \in TradeBlocks(fromBlock, toBlock) :
            /\ args = [token |-> Token("0xT1"), toBlock |-> toBlock,
                       now |-> 24 * 60 * 60 * 1000 + BlockSeconds(fromBlock) * 1000 - 500,
                       ledger |-> LedgerOf(blocks, "0xT1")]
    /\ calls = <<>>
    /\ local = NoLocal
    /\ outcome = Pending
    /\ txs = <<>>

ScanNext ==
    \/ CallGet24hVolume
    \/ ToBlockSettles
    \/ FromBlockSettles
    \/ BatchQuerySettles

ScanSpec == ScanInit /\ [][ScanNext]_vars

(***************************************************************************)
(* getPools (lines 756-782) with each read of a Promise.all completing on  *)
(* its own, in any order.  The ledger holds, per pool, prices and reserves *)
(* of whole ethers.                                                         *)
(***************************************************************************)
\* what the ledger answers priceBuy, priceSell and reserves with, in ethers
PoolLedger(addr, fn) ==
    CASE fn = "priceBuy" -> IF addr = "0xT1" THEN 2 ELSE 3
      [] fn = "priceSell" -> 4
      [] fn = "reserves" -> IF addr = "0xT1" THEN <<1, 2>> ELSE <<0, 1>>

\* the value fn computes from the ledger's answer (lines 319-358): bigint.toString()
EtherReadValue(o, data) ==
    IF o = "getReserves"
    THEN [tokenReserve |-> EtherString(data[2]), ethReserve |-> EtherString(data[1])]
    ELSE EtherString(data)

PlaceResultInCompletionOrder(results, i, v) ==
    LET k == CHOOSE k \in DOMAIN results :
                results[k] = <<>> /\ \A j \in 1..(k - 1) : results[j] # <<>> IN
    [results EXCEPT ![k] = <<v>>]

\* Promise.all keeps the value of its i-th promise at index i
PlaceResult(results, i, v) == [results EXCEPT ![i] = <<v>>]

\* what the i-th promise of the stage's Promise.all settles with, for resp
PoolReadOutcome(stage, addr, resp) ==
    IF stage = 0 THEN getTokenOutcome(addr, resp)
    ELSE safeReadSettle(PoolsStages[stage], Fallback(PoolsStages[stage]),
            IF resp.ok
            THEN Return(EtherReadValue(PoolsStages[stage], PoolLedger(addr, ReadFn(PoolsStages[stage]))))
            ELSE Throw(resp.err))

\* one read of the Promise.all being awaited settles; with the last one the
\* method goes on to the next Promise.all, or to the rows
PoolReadSettles ==
    /\ pc \in {"awaitTokens", "awaitReads"}
    /\ LET n == Len(local.addresses)
           first == pc = "awaitTokens"
           stage == IF first THEN 0 ELSE local.stage
           results == IF first THEN [i \in 1..n |-> <<>>] ELSE local.results
           pending == IF first THEN 1..n ELSE local.pending
           got == IF first THEN <<>> ELSE local.got
           order == IF first THEN <<>> ELSE local.order
           rejected == IF first THEN FALSE ELSE local.rejected IN
       \E i \in pending, resp \in AllResponses :
        LET inner == PoolReadOutcome(stage, local.addresses[i], resp)
            placed == PlaceResult(results, i, inner.val)
            all == Append(got, [j \in 1..n |-> placed[j][1]]) IN
        IF inner.kind = "throw"
        THEN /\ outcome' = safeReadSettle("getPools", <<>>, inner)
             /\ pc' = "done"
             /\ local' = [addresses |-> local.addresses, stage |-> stage, results |-> results,
                          pending |-> pending \ {i}, got |-> got, order |-> Append(order, i),
                          rejected |-> TRUE]
             /\ calls' = calls
        ELSE IF pending # {i}
        THEN /\ outcome' = Pending
             /\ pc' = "awaitReads"
             /\ local' = [addresses |-> local.addresses, stage |-> stage, results |-> placed,
                          pending |-> pending \ {i}, got |-> got, order |-> Append(order, i),
                          rejected |-> rejected \/ ~resp.ok]
             /\ calls' = calls
        ELSE IF stage = Len(PoolsStages)
        THEN /\ outcome' = safeReadSettle("getPools", <<>>, PoolRows(all[1], all[2], all[3], all[4]))
             /\ pc' = "done"
             /\ local' = [addresses |-> local.addresses, stage |-> stage, results |-> placed,
                          pending |-> {}, got |-> all, order |-> Append(order, i),
                          rejected |-> rejected \/ ~resp.ok]
             /\ calls' = calls
        ELSE /\ outcome' = Pending
             /\ pc' = "awaitReads"
             /\ local' = [addresses |-> local.addresses, stage |-> stage + 1,
                          results |-> [j \in 1..n |-> <<>>], pending |-> 1..n, got |-> all,
                          order |-> <<>>, rejected |-> rejected \/ ~resp.ok]
             /\ calls' = calls \o FlatMap(NestedStart(PoolsStages[stage + 1]), n)
    /\ UNCHANGED <<config, client, chainId, publicClient, op, args, txs>>

PoolsInit ==
    /\ config = {DefaultChain}
    /\ client = "ok"
    /\ chainId = DefaultChain
    /\ publicClient \in BOOLEAN
    /\ op = ""
    /\ pc = "idle"
    /\ args = NoLocal
    /\ calls = <<>>
    /\ local = NoLocal
    /\ outcome = Pending
    /\ txs = <<>>

PoolsNext ==
    \/ CallGetPools
    \/ PoolListSettles
    \/ PoolReadSettles
    \/ Finish

PoolsSpec == PoolsInit /\ [][PoolsNext]_vars

(***************************************************************************)
(* Properties.                                                              *)
(***************************************************************************)
SafeReadOps == WrappedReads \cup {"getPool", "getPools"}

ReadOps == SafeReadOps \cup UnwrappedReads

\* the transport errors the recoverable patterns are meant to catch, and the others
ExpectedErrors == {RpcNoData, RpcRevertedData, RpcNoLogsString}

FatalErrors == {RpcUnknown, RpcReverted}

StartsWith(msg, prefix) == Len(msg) >= Len(prefix) /\ SubSeq(msg, 1, Len(prefix)) = prefix

\* the method's own ledger read (not a nested method's) was rejected with an error of errs
OwnReadRejected(errs) ==
    /\ pc = "done"
    /\ op \in WrappedReads \cup {"getPools"}
    /\ "resp" \in DOMAIN local
    /\ "tokenFailed" \notin DOMAIN local
    /\ ~local.resp.ok
    /\ local.resp.err \in errs

PrimaryWrites == {k \in 1..Len(calls) : calls[k].kind = "write" /\ calls[k].fn # "approve"}

ApproveWrites == {k \in 1..Len(calls) : calls[k].kind = "write" /\ calls[k].fn = "approve"}

\* C1: constructing a client for a chain id with no entry in CONTRACT_ADDRESSES
\* throws UNSUPPORTED_CHAIN, yields no client, and has called neither the
\* ledger-read handle nor writeContract.
C1_UnsupportedChainFailsConstruction ==
    (op = "constructor" /\ pc = "done"
        /\ (IF args.chainId = <<>> THEN DefaultChain ELSE args.chainId[1]) \notin config)
    => /\ outcome.kind = "throw"
       /\ outcome.err = NewError(UNSUPPORTED_CHAIN)
       /\ client = "none"
       /\ calls = <<>>
       /\ txs = <<>>

C1_Witness ==
    /\ op = "constructor"
    /\ pc = "done"
    /\ args.chainId = <<1>>
    /\ 1 \notin config
    /\ DefaultChain \in config
    /\ outcome.kind = "throw"

\* C2: a safeRead-wrapped read whose ledger read is rejected with a recoverable
\* error returns the method's zero-value fallback and does not throw; getReserves
\* returns exactly {tokenReserve: "0", ethReserve: "0"}.
C2_ExpectedFailureGivesFallback ==
    OwnReadRejected(ExpectedErrors)
    => /\ outcome.kind = "return"
       /\ outcome.val = (IF op = "getPools" THEN <<>> ELSE Fallback(op))
       /\ op = "getReserves" => outcome.val = [tokenReserve |-> "0", ethReserve |-> "0"]

C2_Witness ==
    /\ op = "getReserves"
    /\ OwnReadRejected({RpcRevertedData})
    /\ outcome = Return([tokenReserve |-> "0", ethReserve |-> "0"])

\* C3: a safeRead-wrapped read whose ledger read is rejected with an error that
\* matches no recoverable pattern throws that very error: same value, same message.
C3_FatalFailureRethrownUnchanged ==
    OwnReadRejected(FatalErrors)
    => /\ outcome.kind = "throw"
       /\ outcome.err = local.resp.err

C3_Witness ==
    /\ op = "getReserves"
    /\ OwnReadRejected({RpcUnknown})
    /\ outcome = Throw(RpcUnknown)

\* C4: when resolving a token's metadata (getToken) fails, or the pool has no LP
\* token, the operation in progress ends by throwing; it never returns a value
\* (an empty list, the default pool) in place of that failure.
C4_TokenFailureAlwaysSurfaces ==
    (/\ pc = "done"
     /\ \/ "tokenFailed" \in DOMAIN local
        \/ ("lpFailed" \in DOMAIN local /\ local.lpFailed \in {"meta", "noLP"})
        \/ (op = "getToken" /\ "resp" \in DOMAIN local /\ ~local.resp.ok))
    => outcome.kind = "throw"

\* C5: in every read method no read reaches the ledger before the guard was run
\* in that invocation, and with the read handle missing every read method ends by
\* throwing PUBLIC_CLIENT_UNAVAILABLE.
C5_GuardBeforeEveryRead ==
    op \in ReadOps
    => /\ \A i \in 1..Len(calls) :
            calls[i].kind = "read" => \E j \in 1..(i - 1) : calls[j].kind = "guard"
       /\ (pc = "done" /\ ~publicClient)
            => (outcome.kind = "throw" /\ outcome.err = NewError(PUBLIC_CLIENT_UNAVAILABLE))

\* C6: in a safeRead-wrapped method, an unsupported chain makes the guard throw
\* UNSUPPORTED_CHAIN and a missing read handle on a supported chain makes it throw
\* PUBLIC_CLIENT_UNAVAILABLE; either way the method ends at once with that error,
\* having run the guard once and issued no read, and gives no fallback.
C6_GuardFailsFastPerCause ==
    op \in SafeReadOps
    => /\ chainId \notin config
            => /\ pc = "done"
               /\ outcome.kind = "throw"
               /\ outcome.err = NewError(UNSUPPORTED_CHAIN)
               /\ calls = <<GuardEvent>>
       /\ (chainId \in config /\ ~publicClient)
            => /\ pc = "done"
               /\ outcome.kind = "throw"
               /\ outcome.err = NewError(PUBLIC_CLIENT_UNAVAILABLE)
               /\ calls = <<GuardEvent>>

C6_Witness ==
    /\ op = "getReserves"
    /\ pc = "done"
    /\ chainId \in config
    /\ ~publicClient
    /\ outcome = Throw(NewError(PUBLIC_CLIENT_UNAVAILABLE))
    /\ calls = <<GuardEvent>>

\* C7: in a mutation that needs an allowance, a rejected approval ends the
\* invocation without any primary write, and the error thrown starts with the
\* mutation's own prefix ("Deposit failed: " for deposit).
C7_FailedApprovalStopsMutation ==
    (op \in Mutations /\ "approve" \in DOMAIN local /\ ~local.approve.ok)
    => /\ pc = "done"
       /\ PrimaryWrites = {}
       /\ \A i \in 1..Len(txs) : txs[i].kind # "primary"
       /\ outcome.kind = "throw"
       /\ StartsWith(outcome.err.message, OpPrefix(op))
       /\ op = "deposit" => StartsWith(outcome.err.message, <<"Deposit", " ", "failed">>)

C7_Witness ==
    /\ op = "deposit"
    /\ pc = "done"
    /\ "approve" \in DOMAIN local
    /\ local.approve = Rejected(WalletRejected)
    /\ outcome.kind = "throw"
    /\ calls = <<WriteEvent("approve", args.token, "")>>

\* C8: the primary write is never submitted while the approval transaction is
\* still pending (handed to the ledger, not yet included).
C8_PrimaryOnlyAfterApprovalIncluded ==
    \A i \in 1..Len(txs) :
        (txs[i].kind = "approve" /\ txs[i].status = "pending") => PrimaryWrites = {}

\* C9: a finished mutation either returned a record with success = true and
\* txHash the hash of its accepted primary transaction, every phase having been
\* accepted, or threw an Error whose message starts with the mutation's prefix.
C9_MutationSucceedsWhollyOrThrows ==
    (op \in Mutations /\ pc = "done")
    => \/ /\ outcome.kind = "return"
          /\ outcome.val.success = TRUE
          /\ outcome.val.txHash # ""
          /\ txs # <<>>
          /\ txs[Len(txs)] = [kind |-> "primary", hash |-> outcome.val.txHash, status |-> txs[Len(txs)].status]
          /\ Len(txs) = (IF op = "buy" THEN 1 ELSE 2)
          /\ op # "buy" => txs[1].kind = "approve"
       \/ /\ outcome.kind = "throw"
          /\ outcome.err.isError
          /\ StartsWith(outcome.err.message, OpPrefix(op))

C9_Witness ==
    /\ op = "swap"
    /\ pc = "done"
    /\ outcome.kind = "return"
    /\ outcome.val = [success |-> TRUE, txHash |-> "0xbbb"]

\* C10: buy never submits an approve, and a buy that got as far as submitting
\* has submitted exactly one write, 'buy' on the pool contract with amountIn
\* attached as value; in every other mutation an approve precedes the primary write.
C10_BuyHasNoApproval ==
    /\ op = "buy"
        => /\ ApproveWrites = {}
           /\ Cardinality(PrimaryWrites) <= 1
           /\ (pc = "awaitPrimary" \/ outcome.kind = "return")
                => calls = <<WriteEvent("buy", PoolContract, args.other)>>
    /\ op \in Mutations \ {"buy"}
        => \A k \in PrimaryWrites : \E j \in ApproveWrites : j < k

C10_Witness ==
    /\ op = "buy"
    /\ pc = "done"
    /\ outcome.kind = "return"
    /\ calls = <<WriteEvent("buy", PoolContract, "2")>>

\* C11: nothing is retried.  One invocation of a mutation submits at most one
\* approval and at most one primary transaction, and one invocation of a
\* safeRead-wrapped read runs the guard once and issues its read at most once,
\* whatever the wallet or the ledger answered.
C11_NoAutomaticRetry ==
    /\ op \in Mutations
        => /\ Cardinality(ApproveWrites) <= 1
           /\ Cardinality(PrimaryWrites) <= 1
           /\ Len(txs) <= Len(calls)
    /\ op \in WrappedReads
        => /\ Cardinality({k \in 1..Len(calls) : calls[k].kind = "read"}) <= 1
           /\ Cardinality({k \in 1..Len(calls) : calls[k].kind = "guard"}) = 1

C11_Witness ==
    /\ op = "deposit"
    /\ pc = "done"
    /\ outcome.kind = "throw"
    /\ "approve" \in DOMAIN local
    /\ local.approve.ok
    /\ calls = <<WriteEvent("approve", args.token, ""), WriteEvent("deposit", PoolContract, args.other)>>

\* C20: isPoolInstantiated answers false exactly when the ledger's poolToken
\* read gave the all-zero address, and true for every other address.
C20_InstantiatedIffNonZeroLP ==
    (op = "isPoolInstantiated" /\ pc = "done" /\ "resp" \in DOMAIN local
        /\ local.resp.ok /\ local.resp.data # <<>>)
    => /\ outcome.kind = "return"
       /\ outcome.val = (local.resp.data[1] # ZeroAddress)

C20_Witness ==
    /\ op = "isPoolInstantiated"
    /\ pc = "done"
    /\ "resp" \in DOMAIN local
    /\ local.resp = Fulfilled(<<ZeroAddress>>)
    /\ outcome = Return(FALSE)

\* block b of the chain is younger than 24 hours at the clock value the search began with
Younger24h(b) == args.now - args.timestamps[b] * 1000 < 86400000

SearchReturned ==
    /\ op = "get24hBeforeBlock"
    /\ pc = "done"
    /\ outcome.kind = "return"
    /\ local.now = args.now

\* C12 (as stated): on a chain with non-decreasing timestamps and a clock that
\* stands still, get24hBeforeBlock returns a block of the chain that is younger
\* than 24 hours, every lower block being 24 hours old or older and every higher
\* block up to latestBlock younger; it returns 0 when every block is younger.
C12_ReturnsLowestRecentBlock ==
    SearchReturned
    => /\ outcome.val \in 0..args.latestBlock
       /\ Younger24h(outcome.val)
       /\ \A b \in 0..args.latestBlock :
            /\ b < outcome.val => ~Younger24h(b)
            /\ b >= outcome.val => Younger24h(b)

\* C12 (amended): the result is the lowest block younger than 24 hours when
\* there is one (0 when every block is), and latestBlock + 1, which is no block
\* of the chain, when no block is younger than 24 hours.
C12_LowestRecentBlockOrPastEnd ==
    SearchReturned
    => /\ outcome.val \in 0..(args.latestBlock + 1)
       /\ \A b \in 0..args.latestBlock :
            /\ b < outcome.val => ~Younger24h(b)
            /\ b >= outcome.val => Younger24h(b)
       /\ (\A b \in 0..args.latestBlock : Younger24h(b)) => outcome.val = 0
       /\ (\A b \in 0..args.latestBlock : ~Younger24h(b)) => outcome.val = args.latestBlock + 1

C12_Witness ==
    /\ SearchReturned
    /\ args.latestBlock = 3
    /\ args.now = 200000000
    /\ args.timestamps = [b \in 0..3 |-> <<100000, 113600, 113601, 150000>>[b + 1]]
    /\ outcome.val = 2

\* the getLogs calls of the invocation, in the order they were issued
LogQueries == SelectSeq(calls, LAMBDA c : c.kind = "read")

\* the ledger's swaps in the asked range with token x sold (side "in") or bought
SwapsOf(x, side) ==
    SelectSeq(args.ledger, LAMBDA l : /\ l.event = "SwapTrade"
                                      /\ l.blockNumber \in args.fromBlock..args.toBlock
                                      /\ IF side = "in" THEN l.tokenSold = x ELSE l.tokenBought = x)

\* record r is the swap log l, its tokens resolved and its block's time attached
IsSwapRecordOf(r, l) ==
    /\ r.tokenIn.address = l.tokenSold
    /\ r.tokenOut.address = l.tokenBought
    /\ r.amountIn = ScaledString(l.amountTokenSold)
    /\ r.amountOut = ScaledString(l.amountTokenBought)
    /\ r.sellPrice = ScaledString(l.tradeSellPrice)
    /\ r.buyPrice = ScaledString(l.tradeBuyPrice)
    /\ r.timestamp = (100000 + l.blockNumber) * 1000

\* C16: getSwapTradeEventLogs for a token X without a trader issues two log
\* queries over the asked block range, the first filtered by tokenSold = X and
\* the second by tokenBought = X, the second also when the first found nothing,
\* and returns the X-sold records followed by the X-bought records.
C16_SwapLogsSoldThenBought ==
    (op = "getSwapTradeEventLogs" /\ pc = "done" /\ publicClient
        /\ args.token # <<>> /\ args.user = <<>> /\ outcome.kind = "return")
    => LET x == args.token[1].address
           sold == SwapsOf(x, "in")
           bought == SwapsOf(x, "out") IN
       /\ Len(LogQueries) = 2
       /\ \A i \in 1..2 :
            /\ LogQueries[i].event = "SwapTrade"
            /\ LogQueries[i].fromBlock = args.fromBlock
            /\ LogQueries[i].toBlock = args.toBlock
       /\ LogQueries[1].filter = [tokenSold |-> <<x>>]
       /\ LogQueries[2].filter = [tokenBought |-> <<x>>]
       /\ ~local.task.failed
            => /\ Len(outcome.val) = Len(sold) + Len(bought)
               /\ \A i \in 1..Len(sold) : IsSwapRecordOf(outcome.val[i], sold[i])
               /\ \A i \in 1..Len(bought) : IsSwapRecordOf(outcome.val[Len(sold) + i], bought[i])

C16_Witness ==
    /\ op = "getSwapTradeEventLogs"
    /\ pc = "done"
    /\ args.token = <<Token("0xT1")>>
    /\ args.user = <<>>
    /\ args.fromBlock = 1
    /\ args.toBlock = 4
    /\ outcome.kind = "return"
    /\ Len(outcome.val) = 5
    /\ outcome.val[1].timestamp = 100002000
    /\ outcome.val[4].timestamp = 100001000

\* the ledger's logs of the asked event in the asked range for the asked user
MatchingLogs ==
    SelectSeq(args.ledger, LAMBDA l : /\ l.event = EventOf(op)
                                      /\ l.blockNumber \in args.fromBlock..args.toBlock
                                      /\ \/ args.user = <<>>
                                         \/ IF l.event \in {"Deposit", "Withdraw"}
                                            THEN l.user = args.user[1]
                                            ELSE l.trader = args.user[1])

\* C18: an event-log query (buy, sell, swap, deposit, withdraw) called without a
\* token, none of whose requests is rejected, returns one record per matching
\* log, carrying that log's own token metadata and its block's timestamp; leaving
\* the token out never makes the query fail.
C18_OmittedTokenResolvesPerLog ==
    (op \in EventQueries /\ pc = "done" /\ publicClient /\ args.token = <<>>
        /\ ~local.task.failed)
    => /\ outcome.kind = "return"
       /\ Len(outcome.val) = Len(MatchingLogs)
       /\ \A i \in 1..Len(MatchingLogs) :
            /\ outcome.val[i].timestamp = (100000 + MatchingLogs[i].blockNumber) * 1000
            /\ IF op = "getSwapTradeEventLogs"
               THEN IsSwapRecordOf(outcome.val[i], MatchingLogs[i])
               ELSE outcome.val[i].token = Token(MatchingLogs[i].token)

\* the first block younger than 24 hours: where get24hVolume's window begins
WindowStart == get24hBeforeBlock(0, args.toBlock, args.now)

\* get24hVolume has returned its own result, no request having been rejected
ScanReturned ==
    /\ op = "get24hVolume"
    /\ pc = "done"
    /\ outcome.kind = "return"
    /\ "logs" \in DOMAIN local
    /\ local.rejected = 0

\* the batches of the scan: the block ranges of its buy queries, as issued
Batches == SelectSeq(calls, LAMBDA c : c.kind = "read" /\ c.fn = "getLogs" /\ c.event = "BuyTrade")

\* what one query of the method over the whole window returns, nothing being rejected
RECURSIVE RunQuery(_)
RunQuery(t) ==
    IF t.stage = "done" THEN t.outcome.val
    ELSE RunQuery(SettleQuery(t, Fulfilled(<<"all">>), args.ledger))

SingleScan(method) ==
    RunQuery(StartQuery(method, WindowStart, args.toBlock, <<args.token>>, <<>>))

\* C13: the batched scan of get24hVolume equals one scan of the whole range:
\* for fromBlock <= toBlock every block of [fromBlock, toBlock], toBlock
\* included, lies in exactly one batch, the batches ascend, and the concatenated
\* buy, sell and swap logs are those of a single query, in the same order.
C13_BatchedScanEqualsSingleScan ==
    (ScanReturned /\ WindowStart <= args.toBlock)
    => /\ \A b \in WindowStart..args.toBlock :
            Cardinality({i \in 1..Len(Batches) :
                            Batches[i].fromBlock <= b /\ b <= Batches[i].toBlock}) = 1
       /\ \A i \in 1..Len(Batches) : \A j \in 1..Len(Batches) :
            i < j => Batches[i].toBlock < Batches[j].fromBlock
       /\ local.logs.buy = SingleScan("getBuyTradeEventLogs")
       /\ local.logs.sell = SingleScan("getSellTradeEventLogs")
       /\ local.logs.swap = SingleScan("getSwapTradeEventLogs")

\* C14: every batch query covers at most 999 block numbers
\* (toBlock - fromBlock + 1 <= 999), and a finished scan of a range that needs
\* 3 batches of 999 blocks (1999 to 2997 blocks) has issued exactly 3 batches.
C14_BatchCoversAtMost999 ==
    op = "get24hVolume"
    => /\ \A i \in 1..Len(Batches) : Batches[i].toBlock - Batches[i].fromBlock + 1 <= 999
       /\ (ScanReturned /\ args.toBlock - WindowStart + 1 \in 1999..2997)
            => Len(Batches) = 3

\* the getLogs calls issued by the step
IssuedInStep == SelectSeq(SubSeq(calls', Len(calls) + 1, Len(calls')), LAMBDA c : c.kind = "read")

\* C15: the queries of a batch are issued by one step, the buy, sell and swap
\* query together before any of them has completed, and that step is taken
\* only when no query of the batch before is outstanding but the one whose
\* completion the step is.
C15_BatchesSequentialQueriesTogether ==
    [][(op' = "get24hVolume" /\ pc' = "awaitBatch"
            /\ (pc # "awaitBatch" \/ local'.currentBlock # local.currentBlock))
        => /\ pc = "awaitBatch"
                => Cardinality({q \in DOMAIN local.tasks : local.tasks[q].stage # "done"}) = 1
           /\ Len(IssuedInStep) = 3
           /\ \A i \in 1..3 :
                /\ IssuedInStep[i].fromBlock = local'.currentBlock
                /\ IssuedInStep[i].toBlock = local'.batchEndBlock
           /\ IssuedInStep[1].event = "BuyTrade"
           /\ IssuedInStep[2].event = "SellTrade"
           /\ IssuedInStep[3].event = "SwapTrade"
           /\ \A q \in DOMAIN local'.tasks : local'.tasks[q].outcome = Pending
      ]_vars

C15_Witness ==
    /\ op = "get24hVolume"
    /\ pc = "awaitBatch"
    /\ local.currentBlock > WindowStart
    /\ local.tasks.swap.stage = "done"
    /\ local.tasks.sell.stage = "done"
    /\ local.tasks.buy.stage # "done"

\* the ETH a ledger log adds to the volume of token x
RECURSIVE LedgerVolume(_, _)
LedgerVolume(ledger, x) ==
    IF ledger = <<>> THEN 0
    ELSE LET l == Head(ledger)
             inWindow == l.blockNumber >= WindowStart /\ l.blockNumber <= args.toBlock
             eth == IF ~inWindow THEN 0
                    ELSE IF l.event \in {"BuyTrade", "SellTrade"}
                         THEN (IF l.token = x THEN l.amountEther ELSE 0)
                    ELSE IF l.event # "SwapTrade" THEN 0
                    ELSE IF l.tokenSold = x THEN l.amountTokenSold * l.tradeSellPrice
                    ELSE IF l.tokenBought = x THEN l.amountTokenBought * l.tradeBuyPrice
                    ELSE 0 IN
         eth + LedgerVolume(Tail(ledger), x)

\* C17: the 24h volume of token X is the sum of the ETH amounts of all buy and
\* sell trades of X in the window plus, for each swap in the window,
\* amountIn * sellPrice / 10^18 when X is sold, otherwise amountOut * buyPrice /
\* 10^18 when X is bought, nothing when X is on neither side.
C17_VolumeSumsTradesAndSwaps ==
    ScanReturned => outcome.val = ToString(LedgerVolume(args.ledger, args.token.address))

\* the row of a pool as the ledger of PoolLedger holds it
ExpectedRow(addr) ==
    IF addr = "0xT1"
    THEN [token |-> [address |-> "0xT1", symbol |-> "TKN", name |-> "Token", decimals |-> "18"],
          buyPrice |-> "2000000000000000000", sellPrice |-> "4000000000000000000",
          totalLiquidity |-> "7000000000000000000"]
    ELSE [token |-> [address |-> addr, symbol |-> "TKN", name |-> "Token", decimals |-> "18"],
          buyPrice |-> "3000000000000000000", sellPrice |-> "4000000000000000000",
          totalLiquidity |-> "3500000000000000000"]

\* C19: getPools returns one RowPool per address of the ledger's pool list, in
\* the list's order, the i-th row holding the token, buyPrice, sellPrice and
\* totalLiquidity read for the i-th address, in whatever order the reads of each
\* Promise.all completed (none of them rejected).
C19_RowsFollowAddressList ==
    (op = "getPools" /\ pc = "done" /\ "order" \in DOMAIN local /\ ~local.rejected)
    => /\ outcome.kind = "return"
       /\ Len(outcome.val) = Len(local.addresses)
       /\ \A i \in 1..Len(local.addresses) : outcome.val[i] = ExpectedRow(local.addresses[i])

C19_Witness ==
    /\ op = "getPools"
    /\ pc = "done"
    /\ "order" \in DOMAIN local
    /\ ~local.rejected
    /\ local.addresses = <<"0xT2", "0xT1">>
    /\ local.order = <<2, 1>>
    /\ outcome.kind = "return"
    /\ outcome.val[1].totalLiquidity = "3500000000000000000"
    /\ outcome.val[2].totalLiquidity = "7000000000000000000"

\* the poolToken answer getLPToken got names no LP token: absent, or the zero address
NoLPRegistered ==
    \/ "lpFailed" \in DOMAIN local /\ local.lpFailed = "noLP"
    \/ "lpAddress" \in DOMAIN local /\ local.lpAddress = ZeroAddress

\* C21: when no LP token is registered for the token (the poolToken answer is
\* absent or the zero address), getLPToken issues no read besides poolToken and
\* ends by throwing an error.
C21_NoLPTokenFailsWithoutReads ==
    (op = "getLPToken" /\ NoLPRegistered)
    => /\ calls = <<ReadEvent("poolToken", PoolContract)>>
       /\ pc = "done"
       /\ outcome.kind = "throw"

\* the decimal strings of integers, among the strings amounts are given as
IsIntegerString(s) == IsSmallString(s) \/ IsHalfEtherString(s)

\* C22: every monetary amount of the Pool getPool returns (reserves, buyPrice,
\* sellPrice, avgPrice, tokenRatio, volume24h, totalLiquidity) is the decimal
\* string of an integer, whatever integers the ledger answered with.
C22_AmountsAreIntegerStrings ==
    (op = "getPool" /\ pc = "done" /\ outcome.kind = "return")
    => \A amount \in {outcome.val.reserve.tokenReserve, outcome.val.reserve.ethReserve,
                      outcome.val.buyPrice, outcome.val.sellPrice, outcome.val.avgPrice,
                      outcome.val.tokenRatio, outcome.val.volume24h, outcome.val.totalLiquidty} :
            IsIntegerString(amount)

\* getPool has called getYield in the invocation in progress
GetYieldCalled == op = "getPool" /\ "getYield" \in DOMAIN local /\ local.getYield # <<>>

\* the time between the first and the last fee event getYield was given, in ms
FeeWindow ==
    local.getYield[1].feeEvents[Len(local.getYield[1].feeEvents)].timestamp
        - local.getYield[1].feeEvents[1].timestamp

\* C23: getPool never calls getYield with an empty fee-event list, with fee
\* events whose first and last timestamps are equal, or with a total liquidity of zero.
C23_GetYieldNeverDividesByZero ==
    GetYieldCalled
    => /\ local.getYield[1].feeEvents # <<>>
       /\ FeeWindow # 0
       /\ local.getYield[1].totalLiquidity # "0"

\* the fees over (elapsed seconds / 86400) * totalLiquidity
YieldOverDays(feeEvents, window, totalLiquidity) ==
    Quotient(TotalFees(feeEvents) * 86400, (window \div 1000) * HalfEthers(totalLiquidity))

\* C24: for the fee events getPoolFeeEvents returned, spanning some time, and a
\* total liquidity above zero, getYield is the sum of the fees divided by
\* (days between the first and the last event * totalLiquidity).
C24_YieldIsFeesOverDaysTimesLiquidity ==
    (GetYieldCalled /\ FeeWindow > 0 /\ local.getYield[1].totalLiquidity # "0")
    => local.poolYield = YieldOverDays(local.getYield[1].feeEvents, FeeWindow,
                                       local.getYield[1].totalLiquidity)

\* the getBlock probes of the invocation
Probes == SelectSeq(calls, LAMBDA c : c.fn = "getBlock")

\* C25: the binary search terminates for every latestBlock >= 0: every probe is
\* of a block mid with low <= mid <= high, every iteration leaves an interval
\* [low, high] strictly smaller than it found, the loop ends with low > high, and
\* the value returned is low, within 0..latestBlock + 1.
C25_SearchTerminatesInRange ==
    /\ [](pc = "awaitTimestamp"
            => local.lowBlock <= local.midBlock /\ local.midBlock <= local.highBlock)
    /\ [][(pc = "awaitTimestamp" /\ pc' \in {"awaitTimestamp", "done"} /\ outcome'.kind # "throw")
            => local'.highBlock - local'.lowBlock < local.highBlock - local.lowBlock]_vars
    /\ []((op = "get24hBeforeBlock" /\ pc = "done" /\ outcome.kind = "return")
            => /\ local.lowBlock > local.highBlock
               /\ outcome.val = local.lowBlock
               /\ outcome.val \in 0..(args.latestBlock + 1))
    /\ (pc = "awaitBlockNumber" ~> pc = "done")

C25_Witness ==
    /\ op = "get24hBeforeBlock"
    /\ pc = "done"
    /\ outcome.kind = "return"
    /\ args.latestBlock = 4
    /\ outcome.val = 0
    /\ Len(Probes) = 3

\* an inner safeRead of the invocation in progress failed at its guard: the last
\* thing the invocation did was to run the guard, after the outer guard had passed
InnerGuardFailed ==
    /\ op \in {"getPool", "getPools"}
    /\ pc = "done"
    /\ Len(calls) > 1
    /\ calls[Len(calls)].kind = "guard"

\* C26: when a safeRead-wrapped method called by getPool or getPools fails at
\* its guard, getPool or getPools ends by throwing that guard error
\* (UNSUPPORTED_CHAIN or PUBLIC_CLIENT_UNAVAILABLE) and returns no fallback.
C26_InnerGuardFailurePropagates ==
    InnerGuardFailed
    => /\ outcome.kind = "throw"
       /\ outcome.err = ensureCanRead
       /\ outcome.err \in {NewError(UNSUPPORTED_CHAIN), NewError(PUBLIC_CLIENT_UNAVAILABLE)}

C26_Witness ==
    /\ InnerGuardFailed
    /\ op = "getPool"
    /\ "got" \in DOMAIN local
    /\ Len(local.got) = 5
    /\ calls[Len(calls) - 1].fn = "getBlockNumber"
    /\ outcome = Throw(NewError(UNSUPPORTED_CHAIN))

\* what the swaps of the ledger in the asked range add to the volume of x, each once
RECURSIVE LedgerSwapVolume(_, _)
LedgerSwapVolume(ledger, x) ==
    IF ledger = <<>> THEN 0
    ELSE LET l == Head(ledger)
             eth == IF l.event # "SwapTrade" \/ l.blockNumber \notin args.fromBlock..args.toBlock THEN 0
                    ELSE IF l.tokenSold = x THEN l.amountTokenSold * l.tradeSellPrice
                    ELSE IF l.tokenBought = x THEN l.amountTokenBought * l.tradeBuyPrice
                    ELSE 0 IN
         eth + LedgerSwapVolume(Tail(ledger), x)

\* C27: in the result of getSwapTradeEventLogs for a token X without a trader
\* every swap event of the ledger appears at most once, and the swap part of the
\* 24h volume computed from that result counts every swap at most once, also a
\* swap whose tokenSold and tokenBought are both X.
C27_SwapCountedOnce ==
    (op = "getSwapTradeEventLogs" /\ pc = "done" /\ publicClient
        /\ args.token # <<>> /\ args.user = <<>> /\ outcome.kind = "return" /\ ~local.task.failed)
    => /\ \A k \in 1..Len(args.ledger) :
            args.ledger[k].event = "SwapTrade"
            => Cardinality({i \in 1..Len(outcome.val) :
                                IsSwapRecordOf(outcome.val[i], args.ledger[k])}) <= 1
       /\ SwapVolume(outcome.val, args.token[1])
            = LedgerSwapVolume(args.ledger, args.token[1].address)

(***************************************************************************)
(* TokenList (src/maelstrom/components/tokens/TokenList.tsx): the React    *)
(* component that pages through the ledger's pools.  local holds the       *)
(* component's state, the closure its IntersectionObserver callback was    *)
(* created with, and the async functions that wait for the client; an      *)
(* async function reads the state of the render that created it.  The      *)
(* client's getPoolCount and getPools answer with the ledger's data or     *)
(* reject; calls records the requests and the rejections.  The updates of  *)
(* one continuation are committed as one render.                           *)
(***************************************************************************)
ITEMS_PER_PAGE == 20

\* one pool more than two pages hold
MaxLedgerPools == 41

MaxFailures == 3

\* the search texts a user types; the name of the first pool holds the query
Queries == {"", "mael"}

TokenListState ==
    [tokens |-> <<>>, totalPools |-> 0, initialLoad |-> TRUE, loadedTokens |-> 0,
     error |-> <<>>, search |-> "", isLoadingMore |-> FALSE, allPoolsLoaded |-> FALSE,
     observer |-> <<>>, pending |-> <<>>]

\* what the functions created by a render read
Closure(s) ==
    [loadedTokens |-> s.loadedTokens, totalPools |-> s.totalPools,
     isLoadingMore |-> s.isLoadingMore, allPoolsLoaded |-> s.allPoolsLoaded,
     search |-> s.search]

filteredTokens(s) ==
    IF s.search = "" THEN s.tokens
    ELSE SelectSeq(s.tokens, LAMBDA pool : pool = 1)

\* the branch the render returns
View(s) ==
    IF s.error # <<>> THEN "error"
    ELSE IF s.initialLoad /\ s.loadedTokens = 0 THEN "skeleton"
    ELSE IF filteredTokens(s) = <<>> THEN "empty"
    ELSE "list"

\* observerRef.current is an element
SentinelShown(s) == View(s) = "list" /\ s.search = ""

\* the observer after the commit of s1 over s0: the effect runs again when one of
\* its dependencies changed, and observes only an element that exists
ObserverEffect(s0, s1) ==
    IF Closure(s0) # Closure(s1)
    THEN IF SentinelShown(s1) THEN <<Closure(s1)>> ELSE <<>>
    ELSE IF SentinelShown(s0) /\ SentinelShown(s1) THEN s0.observer ELSE <<>>

Commit(s0, s1) == [s1 EXCEPT !.observer = ObserverEffect(s0, s1)]

PoolCountRequest == ReadEvent("getPoolCount", <<>>)

PoolsRequest(startIndex, offset) == ReadEvent("getPools", <<startIndex, offset>>)

RejectedEvent(fn) == [kind |-> "rejected", fn |-> fn, target |-> <<>>, value |-> ""]

Rejections == Cardinality({i \in 1..Len(calls) : calls[i].kind = "rejected"})

\* the pools the ledger lists from startIndex on, offset at most
LedgerPage(startIndex, offset) ==
    [i \in 1..(IF args.pools > startIndex
               THEN (IF args.pools - startIndex < offset THEN args.pools - startIndex ELSE offset)
               ELSE 0) |-> startIndex + i]

ListError(prefix, error) == prefix \o <<":", " ">> \o error.message

loadMorePoolsNeverSkips(c) == FALSE

\* loadMorePools returns at once
loadMorePoolsSkips(c) == c.loadedTokens >= c.totalPools \/ c.isLoadingMore \/ c.allPoolsLoaded

AsyncTask(kind, awaits, c) == [kind |-> kind, awaits |-> awaits, c |-> c]

Without(tasks, i) == SubSeq(tasks, 1, i - 1) \o SubSeq(tasks, i + 1, Len(tasks))

\* the state and the requests after loadMorePools ran to its await or to its return,
\* called by an init (then setInitialLoad(false) follows its return) or by the observer
loadMorePools(s, kind, c) ==
    IF loadMorePoolsSkips(c)
    THEN [state |-> IF kind = "init" THEN [s EXCEPT !.initialLoad = FALSE] ELSE s,
          requests |-> <<>>]
    ELSE [state |-> [s EXCEPT !.isLoadingMore = TRUE,
                              !.pending = Append(@, AsyncTask(kind, "getPools", c))],
          requests |-> <<PoolsRequest(c.loadedTokens, ITEMS_PER_PAGE)>>]

\* getPoolLength after its await, and the rest of init up to the await in loadMorePools
getPoolLength(s, i, answer) ==
    LET t == s.pending[i]
        rest == [s EXCEPT !.pending = Without(@, i)]
        s1 == IF answer.ok THEN [rest EXCEPT !.totalPools = answer.data]
              ELSE [rest EXCEPT !.error =
                        ListError(Sp(<<"Failed", "to", "fetch", "total", "pools", "count">>),
                                  answer.err)] IN
    loadMorePools(s1, t.kind, t.c)

\* loadMorePools after its await, and the rest of init
PoolsLoaded(s, i, answer) ==
    LET t == s.pending[i]
        rest == [s EXCEPT !.pending = Without(@, i)]
        newPools == answer.data
        s1 == IF answer.ok
              THEN [rest EXCEPT !.tokens = @ \o newPools,
                                !.loadedTokens = @ + Len(newPools),
                                !.allPoolsLoaded =
                                    IF t.c.loadedTokens + Len(newPools) >= t.c.totalPools
                                    THEN TRUE ELSE @,
                                !.isLoadingMore = FALSE]
              ELSE [rest EXCEPT !.error =
                        ListError(Sp(<<"Failed", "to", "load", "pools">>), answer.err),
                                !.isLoadingMore = FALSE] IN
    [state |-> IF t.kind = "init" THEN [s1 EXCEPT !.initialLoad = FALSE] ELSE s1,
     requests |-> <<>>]

\* what the client answers to the request the task waits for
ClientAnswers(t) ==
    {[ok |-> TRUE,
      data |-> IF t.awaits = "getPoolCount" THEN args.pools
               ELSE LedgerPage(t.c.loadedTokens, ITEMS_PER_PAGE),
      err |-> NoError]}
    \cup {Rejected(NewError(m)) : m \in IF Rejections < MaxFailures
                                         THEN {UNSUPPORTED_CHAIN, PUBLIC_CLIENT_UNAVAILABLE}
                                         ELSE {}}

\* the mount: the first render, whose effects start init and create an observer
\* that has no element to observe
Mount ==
    /\ pc = "unmounted"
    /\ pc' = "mounted"
    /\ local' = [TokenListState EXCEPT
                    !.pending = <<AsyncTask("init", "getPoolCount", Closure(TokenListState))>>]
    /\ calls' = Append(calls, PoolCountRequest)
    /\ UNCHANGED <<config, client, chainId, publicClient, op, args, outcome, txs>>

\* a request of the client settles and the function that awaited it runs on
RequestSettles ==
    /\ pc = "mounted"
    /\ \E i \in DOMAIN local.pending :
        \E answer \in ClientAnswers(local.pending[i]) :
            LET t == local.pending[i]
                went == IF t.awaits = "getPoolCount" THEN getPoolLength(local, i, answer)
                        ELSE PoolsLoaded(local, i, answer) IN
            /\ local' = Commit(local, went.state)
            /\ calls' = calls \o (IF answer.ok THEN <<>> ELSE <<RejectedEvent(t.awaits)>>)
                              \o went.requests
    /\ UNCHANGED <<config, client, chainId, publicClient, op, pc, args, outcome, txs>>

\* the onClick of "Try Again": resets the list and runs init with the functions of
\* the render that shows the error
TryAgain(s) ==
    [state |-> [s EXCEPT !.error = <<>>, !.tokens = <<>>, !.loadedTokens = 0,
                         !.allPoolsLoaded = FALSE, !.initialLoad = TRUE,
                         !.pending = Append(@, AsyncTask("init", "getPoolCount", Closure(s)))],
     requests |-> <<PoolCountRequest>>]

\* the observer's callback for an entry that intersects
SentinelIntersects(s) ==
    LET c == s.observer[1] IN
    IF ~c.isLoadingMore /\ ~c.allPoolsLoaded /\ c.search = ""
    THEN loadMorePools(s, "scroll", c)
    ELSE [state |-> s, requests |-> <<>>]

\* what the user can do with the view that is shown: click "Try Again", scroll the
\* sentinel into view, type into the search bar of the list
UserActs ==
    /\ pc = "mounted"
    /\ \E gesture \in {"click", "scroll", "type"}, q \in Queries :
        /\ CASE gesture = "click" -> View(local) = "error"
             [] gesture = "scroll" -> local.observer # <<>>
             [] gesture = "type" -> View(local) = "list"
        /\ LET went == CASE gesture = "click" -> TryAgain(local)
                         [] gesture = "scroll" -> SentinelIntersects(local)
                         [] gesture = "type" ->
                                [state |-> [local EXCEPT !.search = q], requests |-> <<>>] IN
           /\ local' = Commit(local, went.state)
           /\ calls' = calls \o went.requests
    /\ UNCHANGED <<config, client, chainId, publicClient, op, pc, args, outcome, txs>>

TokenListInit ==
    /\ config = {DefaultChain}
    /\ client = "ok"
    /\ chainId = DefaultChain
    /\ publicClient = TRUE
    /\ op = "TokenList"
    /\ pc = "unmounted"
    /\ \E n \in 0..MaxLedgerPools : args = [pools |-> n]
    /\ calls = <<>>
    /\ local = NoLocal
    /\ outcome = Pending
    /\ txs = <<>>

TokenListNext ==
    \/ Mount
    \/ RequestSettles
    \/ UserActs

TokenListSpec == TokenListInit /\ [][TokenListNext]_vars

\* every request of the client settles, by an answer or by a rejection
TokenListLiveSpec == TokenListSpec /\ WF_vars(RequestSettles)

FirstPageRequested ==
    \E i \in 1..Len(calls) : calls[i] = PoolsRequest(0, ITEMS_PER_PAGE)

\* the component rests: no function waits for the client and no observer is set
TokenListRests == pc = "mounted" /\ local.pending = <<>> /\ local.observer = <<>>

\* C28: after the mount of TokenList, when the ledger holds pools and no call
\* of the client fails, the first page getPools(0, 20) is eventually requested
\* and its pools are shown in the list.
C28_InitialLoadIsLive ==
    (pc = "mounted" /\ args.pools > 0)
    ~> /\ pc = "mounted"
       /\ \/ Rejections > 0
          \/ FirstPageRequested /\ View(local) = "list" /\ local.tokens # <<>>

\* the pages requested by a step
NewRequests == SubSeq(calls', Len(calls) + 1, Len(calls'))

PagesInFlight == Cardinality({i \in DOMAIN local.pending : local.pending[i].awaits = "getPools"})

batchSize == 1000

maxBatches == 50

MaxChartEvents == 6

\* the latest block of the ledger
ChartLatestBlocks == {0, 1, batchSize, batchSize + 1, 2 * batchSize + 2}

\* the blocks that may hold a trade of the token
ChartTradeBlocks == {1, batchSize, batchSize + 1, 2 * batchSize}

PriceChartsState ==
    [chartData |-> {}, loading |-> FALSE, error |-> <<>>, currentBlock |-> 0,
     hasMoreData |-> TRUE, pending |-> <<>>]

\* what the fetchNextBatch created by a render reads
ChartClosure(s) ==
    [currentBlock |-> s.currentBlock, hasMoreData |-> s.hasMoreData, loading |-> s.loading,
     totalDataPoints |-> Cardinality(s.chartData)]

BlockNumberRequest == ReadEvent("getBlockNumber", <<>>)

TradeLogsRequest(fromBlock, toBlock) == ReadEvent("getTradeEventLogs", <<fromBlock, toBlock>>)

RefreshEvent == [kind |-> "click", fn |-> "handleRefresh", target |-> <<>>, value |-> ""]

UnableToGetBlock == Sp(<<"Unable", "to", "get", "current", "block", "number">>)

\* fetchNextBatch from the computation of the range on, for a closure c
FetchRange(s, c, blockToFetch) ==
    LET fromBlock == IF blockToFetch - batchSize > 0 THEN blockToFetch - batchSize ELSE 0
        toBlock == blockToFetch IN
    IF c.totalDataPoints >= maxBatches * 50
    THEN [state |-> [s EXCEPT !.hasMoreData = FALSE, !.loading = FALSE], requests |-> <<>>]
    ELSE [state |-> [s EXCEPT !.pending =
                        <<[awaits |-> "getTradeEventLogs", c |-> c,
                           fromBlock |-> fromBlock, toBlock |-> toBlock]>>],
          requests |-> <<TradeLogsRequest(fromBlock, toBlock)>>]

\* fetchNextBatch up to its first await or its return, for a closure c
fetchNextBatch(s, c) ==
    IF ~c.hasMoreData \/ c.loading THEN [state |-> s, requests |-> <<>>]
    ELSE LET s1 == [s EXCEPT !.loading = TRUE, !.error = <<>>] IN
         IF c.currentBlock = 0
         THEN [state |-> [s1 EXCEPT !.pending =
                            <<[awaits |-> "getBlockNumber", c |-> c,
                               fromBlock |-> 0, toBlock |-> 0]>>],
               requests |-> <<BlockNumberRequest>>]
         ELSE FetchRange(s1, c, c.currentBlock)

\* the trades of the token the ledger holds in a range of blocks
TradesIn(fromBlock, toBlock) == {b \in args.trades : fromBlock <= b /\ b <= toBlock}

ChartRejections ==
    IF Rejections < MaxRejected
    THEN {Rejected(RpcUnknown), Rejected(RpcNoLogsString)}
    ELSE {}

\* the mount effect: fetchNextBatch of the first render
ChartMount ==
    /\ pc = "unmounted"
    /\ pc' = "mounted"
    /\ LET went == fetchNextBatch(PriceChartsState, ChartClosure(PriceChartsState)) IN
        /\ local' = went.state
        /\ calls' = calls \o went.requests
    /\ UNCHANGED <<config, client, chainId, publicClient, op, args, outcome, txs>>

\* publicClient?.getBlockNumber() settles: undefined without a publicClient
LatestBlockSettles ==
    /\ pc = "mounted"
    /\ local.pending # <<>>
    /\ local.pending[1].awaits = "getBlockNumber"
    /\ LET t == local.pending[1]
           rest == [local EXCEPT !.pending = <<>>]
           answers == IF publicClient
                      THEN {[ok |-> TRUE, data |-> <<args.latestBlock>>, err |-> NoError]}
                            \cup ChartRejections
                      ELSE {[ok |-> TRUE, data |-> <<>>, err |-> NoError]} IN
       \E answer \in answers :
           IF ~answer.ok
           THEN /\ local' = [rest EXCEPT !.error = IF answer.err.isError THEN answer.err.message
                                                   ELSE Sp(<<"Failed", "to", "fetch", "trade", "data">>),
                                         !.loading = FALSE]
                /\ calls' = Append(calls, RejectedEvent(t.awaits))
           ELSE IF answer.data = <<>> \/ answer.data = <<0>>
           THEN /\ local' = [rest EXCEPT !.error = UnableToGetBlock, !.loading = FALSE]
                /\ calls' = calls
           ELSE LET went == FetchRange([rest EXCEPT !.currentBlock = answer.data[1]],
                                       t.c, answer.data[1]) IN
                /\ local' = went.state
                /\ calls' = calls \o went.requests
    /\ UNCHANGED <<config, client, chainId, publicClient, op, pc, args, outcome, txs>>

\* the two log reads of a range settle: their trades, or nothing for a range the
\* ledger cannot serve, or a rejection
TradeLogsSettle ==
    /\ pc = "mounted"
    /\ local.pending # <<>>
    /\ local.pending[1].awaits = "getTradeEventLogs"
    /\ LET t == local.pending[1]
           rest == [local EXCEPT !.pending = <<>>, !.loading = FALSE]
           answers == {[ok |-> TRUE, data |-> TradesIn(t.fromBlock, t.toBlock), err |-> NoError]}
                        \cup ChartRejections IN
       \E answer \in answers :
           IF ~answer.ok
           THEN /\ local' = [rest EXCEPT !.error = IF answer.err.isError THEN answer.err.message
                                                   ELSE Sp(<<"Failed", "to", "fetch", "trade", "data">>)]
                /\ calls' = Append(calls, RejectedEvent(t.awaits))
           ELSE /\ local' = IF answer.data = {}
                            THEN [rest EXCEPT !.hasMoreData = FALSE]
                            ELSE [rest EXCEPT !.chartData = @ \cup answer.data,
                                              !.currentBlock = t.fromBlock - 1]
                /\ calls' = calls
    /\ UNCHANGED <<config, client, chainId, publicClient, op, pc, args, outcome, txs>>

\* a click on "Load More Data", enabled unless loading or without more data
ClickLoadMore ==
    /\ pc = "mounted"
    /\ Len(calls) < MaxChartEvents
    /\ ~local.loading /\ local.hasMoreData
    /\ LET went == fetchNextBatch(local, ChartClosure(local)) IN
        /\ local' = went.state
        /\ calls' = calls \o went.requests
    /\ UNCHANGED <<config, client, chainId, publicClient, op, pc, args, outcome, txs>>

\* a click on "Refresh", enabled unless loading: resets the chart and calls the
\* fetchNextBatch of the render that showed the button
handleRefresh ==
    /\ pc = "mounted"
    /\ Len(calls) < MaxChartEvents
    /\ ~local.loading
    /\ LET reset == [local EXCEPT !.chartData = {}, !.currentBlock = 0,
                                  !.hasMoreData = TRUE, !.error = <<>>]
           went == fetchNextBatch(reset, ChartClosure(local)) IN
        /\ local' = went.state
        /\ calls' = Append(calls, RefreshEvent) \o went.requests
    /\ UNCHANGED <<config, client, chainId, publicClient, op, pc, args, outcome, txs>>

ChartInit ==
    /\ config = {DefaultChain}
    /\ client = "ok"
    /\ chainId = DefaultChain
    /\ publicClient \in BOOLEAN
    /\ op = "PriceCharts"
    /\ pc = "unmounted"
    /\ \E latest \in ChartLatestBlocks, trades \in SUBSET ChartTradeBlocks :
            /\ \A b \in trades : b <= latest
            /\ args = [latestBlock |-> latest, trades |-> trades]
    /\ calls = <<>>
    /\ local = NoLocal
    /\ outcome = Pending
    /\ txs = <<>>

ChartNext ==
    \/ ChartMount
    \/ LatestBlockSettles
    \/ TradeLogsSettle
    \/ ClickLoadMore
    \/ handleRefresh

ChartSpec == ChartInit /\ [][ChartNext]_vars

\* the ranges of blocks requested so far, and for each whether the walk went on
\* from the one before: no click on "Refresh" and no rejection lies between them
RangeAt(i) == [fromBlock |-> calls[i].target[1], toBlock |-> calls[i].target[2]]

IsRange(i) == calls[i].kind = "read" /\ calls[i].fn = "getTradeEventLogs"

Successive(i, j) ==
    /\ i < j /\ IsRange(i) /\ IsRange(j)
    /\ \A k \in (i + 1)..(j - 1) : calls[k].kind = "read" /\ calls[k].fn = "getBlockNumber"

\* C30: every range of blocks PriceCharts requests has 0 <= fromBlock <=
\* toBlock, and a range requested after a successful fetch lies entirely below
\* the range of that fetch: the walk neither asks for a negative bound nor goes
\* back to the range of the latest block.
C30_RangesMoveBackward ==
    (op = "PriceCharts" /\ pc = "mounted")
    => /\ \A i \in 1..Len(calls) :
            IsRange(i) => 0 <= RangeAt(i).fromBlock /\ RangeAt(i).fromBlock <= RangeAt(i).toBlock
       /\ \A i, j \in 1..Len(calls) :
            Successive(i, j) => RangeAt(j).toBlock < RangeAt(i).fromBlock

====
